---- MODULE Spec2Model ----
(***************************************************************************)
(* Model of the converters of globalbuildingdatainitiative/converters:     *)
(* the SLiCE and BECD mergers (rows folded into a project -> assembly ->   *)
(* product graph) and the row-by-row converters (CarbEnMats, Structural    *)
(* Panda).  One run of a loader is: read rows one by one, convert or merge *)
(* each, and call save_data after the last one; an exception raised while  *)
(* a row is processed leaves the loop and ends the run.                    *)
(***************************************************************************)
EXTENDS Integers, Sequences, FiniteSets, TLC

VARIABLES
    conv,       \* the loader that is running
    rows,       \* the rows the reader has yielded so far, in input order
    projects,   \* the merger's `projects` dict (key -> project), insertion-ordered
    lcax_data,  \* the list of records the run has built
    pc,         \* "loop" | "raised" | "saved"
    error,      \* the exception that ended the run ("" while none)
    saved,      \* the arguments of every save_data call, in order
    MAPPING     \* the logical keys the converter's mapping table holds

vars == <<conv, rows, projects, lcax_data, pc, error, saved, MAPPING>>

\* The number of rows a run reads at most.
MaxRows == 2

\* The number of rows of a run that interleaves the rows of its projects.
MaxOrderRows == 3

\* The number of rows of a run whose rows all name one product.
MaxRepeatRows == 2

\* The number of rows of a run whose rows are merged in every order.
MaxPermuteRows == 3

\* The longest list chunks is called on, and the largest chunk size.
MaxLen == 7
MaxChunk == 4

\* The largest number of elements of a file load_slice of split.py splits.
MaxData == 101

\* The number of calls of a normaliser that are followed.
MaxCalls == 2

-----------------------------------------------------------------------------
(* Python values *)

\* None / a present value: an optional cell is <<>> or <<v>>.
None == <<>>
Some(v) == <<v>>
IsNone(c) == c = <<>>

\* A Python dict keeps insertion order: a sequence of [k, v] entries with
\* distinct keys.
EmptyDict == <<>>
Keys(d) == {d[i].k : i \in DOMAIN d}
KeyList(d) == [i \in DOMAIN d |-> d[i].k]
Values(d) == [i \in DOMAIN d |-> d[i].v]
Has(d, key) == \E i \in DOMAIN d : d[i].k = key
Get(d, key) == d[CHOOSE i \in DOMAIN d : d[i].k = key].v
\* A dict whose assignment takes an existing key out and puts it last.
Put_last(d, key, val) ==
    SelectSeq(d, LAMBDA e : e.k # key) \o <<[k |-> key, v |-> val]>>

\* d[key] = val: a new key goes last, an existing key keeps its place.
Put(d, key, val) ==
    IF Has(d, key)
    THEN [i \in DOMAIN d |-> IF d[i].k = key THEN [k |-> key, v |-> val] ELSE d[i]]
    ELSE Append(d, [k |-> key, v |-> val])

\* str.lower() and str.upper(), as tables: every string with a cased letter
\* that a row of the inputs can hold has an entry, and so have the names of
\* all the life-cycle stages; a string with no entry is taken to have no
\* upper-case letter.
LowerTable ==
    (" No data " :> " no data ") @@ (" Tower" :> " tower") @@
    (" Tower " :> " tower ") @@ ("A0" :> "a0") @@ ("A1-3" :> "a1-3") @@
    ("A4" :> "a4") @@ ("A5" :> "a5") @@ ("ADVANCED" :> "advanced") @@
    ("AGRICULTURAL" :> "agricultural") @@ ("ALPHA" :> "alpha") @@
    ("ATLANTIS" :> "atlantis") @@ ("AVERAGE" :> "average") @@
    ("Advanced" :> "advanced") @@ ("Agricultural" :> "agricultural") @@
    ("Alpha" :> "alpha") @@ ("Atlantis" :> "atlantis") @@
    ("Average" :> "average") @@ ("B1" :> "b1") @@ ("B2" :> "b2") @@
    ("B3" :> "b3") @@ ("B4" :> "b4") @@ ("B5" :> "b5") @@ ("B6" :> "b6") @@
    ("B7" :> "b7") @@ ("B8" :> "b8") @@ ("BECD-1" :> "becd-1") @@
    ("BECD-2" :> "becd-2") @@ ("Building" :> "building") @@ ("C1" :> "c1") @@
    ("C2" :> "c2") @@ ("C3" :> "c3") @@ ("C4" :> "c4") @@
    ("COMMERCIAL" :> "commercial") @@ ("CONTINENTAL" :> "continental") @@
    ("CON_MFH_NEW_STD" :> "con_mfh_new_std") @@ ("Castle" :> "castle") @@
    ("Commercial" :> "commercial") @@ ("Continental" :> "continental") @@
    ("D" :> "d") @@ ("DENMARK" :> "denmark") @@ ("DK" :> "dk") @@
    ("DNK" :> "dnk") @@ ("Demolition" :> "demolition") @@
    ("Denmark" :> "denmark") @@ ("EDUCATIONAL" :> "educational") @@
    ("EXISTING BUILDING" :> "existing building") @@
    ("EXISTING BUILDINGS" :> "existing buildings") @@
    ("Educational" :> "educational") @@ ("Element" :> "element") @@
    ("Existing Building" :> "existing building") @@
    ("Existing Buildings" :> "existing buildings") @@
    ("Existing building" :> "existing building") @@
    ("Existing buildings" :> "existing buildings") @@
    ("Extension" :> "extension") @@ ("F10" :> "f10") @@
    ("FULL REFURB" :> "full refurb") @@ ("Floor" :> "floor") @@
    ("Full Refurb" :> "full refurb") @@ ("Full refurb" :> "full refurb") @@
    ("GB" :> "gb") @@ ("GBR" :> "gbr") @@ ("HEALTHCARE" :> "healthcare") @@
    ("Healthcare" :> "healthcare") @@ ("INDUSTRIAL" :> "industrial") @@
    ("INFRASTRUCTURE" :> "infrastructure") @@ ("Industrial" :> "industrial") @@
    ("Infrastructure" :> "infrastructure") @@ ("London" :> "london") @@
    ("MEDITERRANEAN" :> "mediterranean") @@
    ("MIXED NEW BUILD/REFURB" :> "mixed new build/refurb") @@
    ("MIXED USE" :> "mixed use") @@
    ("MULTI-FAMILY HOUSE" :> "multi-family house") @@
    ("Mediterranean" :> "mediterranean") @@
    ("Mixed New Build/Refurb" :> "mixed new build/refurb") @@
    ("Mixed Use" :> "mixed use") @@
    ("Mixed new build/refurb" :> "mixed new build/refurb") @@
    ("Mixed use" :> "mixed use") @@
    ("Multi-Family House" :> "multi-family house") @@
    ("Multi-family house" :> "multi-family house") @@
    ("NEW BUILD (BROWNFIELD)" :> "new build (brownfield)") @@
    ("NEW BUILD (GREENFIELD)" :> "new build (greenfield)") @@
    ("NEW BUILDINGS" :> "new buildings") @@ ("NEW BUILT" :> "new built") @@
    ("NEW CONSTRUCTION" :> "new construction") @@ ("NO DATA" :> "no data") @@
    ("NORDIC" :> "nordic") @@ ("NOR_SFH_EXB_AVG" :> "nor_sfh_exb_avg") @@
    ("New Build (Brownfield)" :> "new build (brownfield)") @@
    ("New Build (Greenfield)" :> "new build (greenfield)") @@
    ("New Buildings" :> "new buildings") @@ ("New Built" :> "new built") @@
    ("New Construction" :> "new construction") @@
    ("New build (brownfield)" :> "new build (brownfield)") @@
    ("New build (greenfield)" :> "new build (greenfield)") @@
    ("New buildings" :> "new buildings") @@ ("New built" :> "new built") @@
    ("New construction" :> "new construction") @@ ("No" :> "no") @@
    ("No Data" :> "no data") @@ ("No data" :> "no data") @@
    ("Nordic" :> "nordic") @@ ("OCEANIC" :> "oceanic") @@
    ("OFFICE" :> "office") @@ ("OTHER" :> "other") @@
    ("Oceanic" :> "oceanic") @@ ("Office" :> "office") @@
    ("Other" :> "other") @@ ("PUBLIC" :> "public") @@
    ("Passive" :> "passive") @@ ("Public" :> "public") @@
    ("REFURBISHMENT" :> "refurbishment") @@ ("RESIDENTIAL" :> "residential") @@
    ("Refurbishment" :> "refurbishment") @@ ("Residential" :> "residential") @@
    ("Residential/Office" :> "residential/office") @@
    ("SCIENCE/LAB" :> "science/lab") @@
    ("SINGLE-FAMILY HOUSE" :> "single-family house") @@
    ("STANDARD" :> "standard") @@ ("Science/Lab" :> "science/lab") @@
    ("Science/lab" :> "science/lab") @@ ("SfB" :> "sfb") @@
    ("Single-Family House" :> "single-family house") @@
    ("Single-family house" :> "single-family house") @@
    ("Skyscraper" :> "skyscraper") @@ ("Slab" :> "slab") @@
    ("Standard" :> "standard") @@ ("Tower" :> "tower") @@
    ("Tower " :> "tower ") @@
    ("UNITED KINGDOM OF GREAT BRITAIN AND NORTHERN IRELAND" :> "united kingdom of great britain and northern ireland") @@
    ("Undefined" :> "undefined") @@ ("Wall" :> "wall") @@ ("Yes" :> "yes") @@
    ("ZZ" :> "zz") @@ ("Zoo" :> "zoo")
lower(s) == IF s \in DOMAIN LowerTable THEN LowerTable[s] ELSE s

UpperTable ==
    ("gb" :> "GB") @@ ("dk" :> "DK") @@ ("Denmark" :> "DENMARK") @@
    ("Atlantis" :> "ATLANTIS") @@ ("no data" :> "NO DATA") @@ ("No data" :> "NO DATA") @@
    ("gbr" :> "GBR") @@ ("dnk" :> "DNK") @@ ("denmark" :> "DENMARK") @@
    ("atlantis" :> "ATLANTIS")
upper(s) == IF s \in DOMAIN UpperTable THEN UpperTable[s] ELSE s

\* str(uuid5(NAMESPACE_URL, name)): a function of the name alone, one-to-one
\* on the names of a run.
uuid5(name) == "uuid5:" \o name

\* The result of a call that may raise: the value, or the exception.
Ok(v) == [err |-> "", val |-> v]
Raise(e) == [err |-> e, val |-> <<>>]

-----------------------------------------------------------------------------
(* SLiCE: src/slice/slice.py *)

\* get_location: the region of the row decides the country.
slice_get_location(row) ==
    LET region == lower(row.stock_region_name) IN
    [country |-> CASE region = "continental" -> "deu"
                   [] region = "mediterranean" -> "ita"
                   [] region = "nordic" -> "swe"
                   [] region = "oceanic" -> "gbr"
                   [] OTHER -> "deu",
     city |-> None]

\* The synonym lists of the SLiCE categorical families, in table order.
SLICE_BUILDING_TYPOLOGY ==
    << [variant |-> "residential", synonyms |-> {"single-family house", "multi-family house"}],
       [variant |-> "office", synonyms |-> {"office"}] >>
SLICE_BUILDING_TYPE ==
    << [variant |-> "new_construction_works", synonyms |-> {"new buildings"}],
       [variant |-> "retrofit_works", synonyms |-> {"refurbishment"}],
       [variant |-> "operations", synonyms |-> {"existing buildings"}] >>
SLICE_GENERAL_ENERGY_CLASS ==
    << [variant |-> "standard", synonyms |-> {"standard"}],
       [variant |-> "advanced", synonyms |-> {"advanced"}],
       [variant |-> "existing", synonyms |-> {"average"}] >>

\* for key in keys: if data.lower() in MAPPING[key]: return variant -- the
\* index of the first entry with a non-empty synonym list holding the value,
\* 0 when there is none.
FirstMatch(table, data) ==
    LET hits == {i \in DOMAIN table :
                    table[i].synonyms # {} /\ lower(data) \in table[i].synonyms}
    IN IF hits = {} THEN 0 ELSE CHOOSE i \in hits : \A j \in hits : i <= j

slice_get_building_typology(row) ==
    LET i == FirstMatch(SLICE_BUILDING_TYPOLOGY, row.building_use_subtype_name) IN
    IF i = 0 THEN Raise("NotImplementedError: Unknown building typology")
    ELSE Ok(<<SLICE_BUILDING_TYPOLOGY[i].variant>>)

slice_get_building_type(row) ==
    LET i == FirstMatch(SLICE_BUILDING_TYPE, row.stock_activity_type_name) IN
    IF i = 0 THEN Raise("NotImplementedError: Unknown building type")
    ELSE Ok(SLICE_BUILDING_TYPE[i].variant)

slice_get_general_energy_class(row) ==
    LET i == FirstMatch(SLICE_GENERAL_ENERGY_CLASS, row.building_energy_performance_name) IN
    IF i = 0 THEN Raise("NotImplementedError: Unknown general energy class")
    ELSE Ok(SLICE_GENERAL_ENERGY_CLASS[i].variant)

\* LCAxLifeCycleStage.from_str(name).value
LCAxLifeCycleStage_from_str(name) ==
    LET match(_name) ==
    CASE _name = "a0" -> Ok("a0")
      [] _name = "a1-3" -> Ok("a1a3")
      [] _name = "a4" -> Ok("a4")
      [] _name = "a5" -> Ok("a5")
      [] _name = "b1" -> Ok("b1")
      [] _name = "b2" -> Ok("b2")
      [] _name = "b3" -> Ok("b3")
      [] _name = "b4" -> Ok("b4")
      [] _name = "b5" -> Ok("b5")
      [] _name = "b6" -> Ok("b6")
      [] _name = "b7" -> Ok("b7")
      [] _name = "b8" -> Ok("b8")
      [] _name = "c1" -> Ok("c1")
      [] _name = "c2" -> Ok("c2")
      [] _name = "c3" -> Ok("c3")
      [] _name = "c4" -> Ok("c4")
      [] _name = "d" -> Ok("d")
      [] OTHER -> Raise("NotImplementedError: Unknown life cycle stage")
    IN match(lower(name))

\* The (impact category, source column) pairs add_row walks, in order.  The
\* table is cut to two of its sixteen pairs; every pair goes through the same
\* add_impact call.
impact_sets ==
    << [key |-> "gwp", column |-> "ind_GWP_Tot"],
       [key |-> "odp", column |-> "ind_ODP"] >>

\* add_impact that leaves a cell alone once it is there: the first
\* contribution is the value of the cell.
add_impact_keep_first(impacts, key, stage, value) ==
    IF IsNone(value)
    THEN [err |-> "TypeError: unsupported operand", val |-> impacts]
    ELSE IF Has(Get(impacts, key), stage) THEN Ok(impacts)
    ELSE Ok(Put(impacts, key, Put(Get(impacts, key), stage, value[1])))

\* add_impact with `=` in place of `+=`: the last contribution replaces the sum.
add_impact_overwrite(impacts, key, stage, value) ==
    IF IsNone(value)
    THEN [err |-> "TypeError: unsupported operand", val |-> impacts]
    ELSE Ok(Put(impacts, key, Put(Get(impacts, key), stage, value[1])))

\* LCAxTechFlow.add_impact: impacts is category -> stage -> value.  The cell is
\* set to 0 when the stage is new, then `+= value`; adding None to a number
\* raises TypeError after the cell was created.
add_impact(impacts, key, stage, value) ==
    LET cat == Get(impacts, key)
        cat0 == IF Has(cat, stage) THEN cat ELSE Put(cat, stage, 0)
    IN IF IsNone(value)
       THEN [err |-> "TypeError: unsupported operand", val |-> Put(impacts, key, cat0)]
       ELSE Ok(Put(impacts, key, Put(cat0, stage, Get(cat0, stage) + value[1])))

\* The loop of add_row from pair i on; the first exception ends it and leaves
\* the impacts as they are at that point.
RECURSIVE add_impacts_from(_, _, _, _)
add_impacts_from(impacts, stage, row, i) ==
    IF i > Len(impact_sets) THEN Ok(impacts)
    ELSE LET next(r) == IF r.err # "" THEN r ELSE add_impacts_from(r.val, stage, row, i + 1)
         IN next(add_impact(impacts, impact_sets[i].key, stage, row[impact_sets[i].column]))

\* LCAxTechFlow.add_row: the stage is resolved first (and may raise before
\* anything is touched), then every pair is added.
LCAxTechFlow_add_row(tech_flow, row) ==
    LET added(r) == [err |-> r.err, val |-> [tech_flow EXCEPT !.impacts = r.val]]
        add(stage) ==
            IF stage.err # "" THEN [err |-> stage.err, val |-> tech_flow]
            ELSE added(add_impacts_from(tech_flow.impacts, stage.val, row, 1))
    IN add(LCAxLifeCycleStage_from_str(row.LCS_EN15978))

\* LCAxTechFlow.from_row: an empty aggregate per category, then add_row.
LCAxTechFlow_from_row(row) ==
    LCAxTechFlow_add_row(
        [id |-> uuid5(row.techflow_name_mmg),
         name |-> row.techflow_name_mmg,
         impacts |-> [i \in DOMAIN impact_sets |-> [k |-> impact_sets[i].key, v |-> EmptyDict]]],
        row)

\* row[ws] or "" + row[tf]: `+` binds tighter than `or`, so the work-section
\* code is the whole key when it is not empty, the flow name otherwise.
product_content_key(row) ==
    IF row.worksection_class_sfb # "" THEN row.worksection_class_sfb
    ELSE "" \o row.techflow_name_mmg

\* LCAxProduct.from_row
LCAxProduct_from_row(row) ==
    LET build(tf) ==
            IF tf.err # "" THEN Raise(tf.err)
            ELSE Ok([id |-> uuid5(product_content_key(row)),
                     name |-> product_content_key(row),
                     reference_service_life |-> 50,
                     impact_data |-> tf.val,
                     quantity |-> 1,
                     unit |-> "kg"])
    IN build(LCAxTechFlow_from_row(row))

\* add_row that builds the product again from the row: the last row decides
\* the names, and the aggregate starts over.
LCAxProduct_replace_row(product, row) == LCAxProduct_from_row(row)

\* LCAxProduct.add_row
LCAxProduct_add_row(product, row) ==
    LET added(tf) == [err |-> tf.err, val |-> [product EXCEPT !.impact_data = tf.val]]
    IN added(LCAxTechFlow_add_row(product.impact_data, row))

\* LCAxAssembly.from_row
LCAxAssembly_from_row(row) ==
    [id |-> uuid5(row.element_class_sfb),
     name |-> row.element_class_generic_name,
     classification |-> [system |-> "SfB",
                         code |-> row.element_class_sfb,
                         name |-> row.element_class_generic_name],
     quantity |-> 1,
     unit |-> "kg",
     products |-> EmptyDict]

\* The life-cycle stages LCAxProject.from_row declares.
SLICE_LIFE_CYCLE_STAGES ==
    <<"a1a3", "a4", "a5", "b2", "b4", "b5", "b6", "c1", "c2", "c3", "c4">>

\* LCAxProject.from_row: the keyword arguments are evaluated in order, so the
\* first normaliser that raises decides the exception.
LCAxProject_from_row(row) ==
    LET bt == slice_get_building_type(row)
        ty == slice_get_building_typology(row)
        ec == slice_get_general_energy_class(row)
    IN IF bt.err # "" THEN Raise(bt.err)
       ELSE IF ty.err # "" THEN Raise(ty.err)
       ELSE IF ec.err # "" THEN Raise(ec.err)
       ELSE Ok([id |-> uuid5(row.building_archetype_code),
                name |-> "Undefined",
                location |-> slice_get_location(row),
                impact_categories |-> [i \in DOMAIN impact_sets |-> impact_sets[i].key],
                life_cycle_stages |-> SLICE_LIFE_CYCLE_STAGES,
                building_type |-> bt.val,
                building_typology |-> ty.val,
                general_energy_class |-> ec.val,
                assemblies |-> EmptyDict])

\* update_project that looks the product up by the assembly alone: a row of
\* an assembly that has a product is added to that product.
slice_update_project_one_product(project, row) ==
    LET assembly_id == uuid5(row.element_class_sfb)
        asms1 == IF Has(project.assemblies, assembly_id) THEN project.assemblies
                 ELSE Put(project.assemblies, assembly_id, LCAxAssembly_from_row(row))
        store(asm, product_id, r) ==
            [err |-> r.err,
             val |-> [project EXCEPT !.assemblies =
                         Put(asms1, assembly_id,
                             [asm EXCEPT !.products = Put(asm.products, product_id, r.val)])]]
        product(asm, product_id) ==
            store(asm, product_id,
                  IF Has(asm.products, product_id)
                  THEN LCAxProduct_add_row(Get(asm.products, product_id), row)
                  ELSE LCAxProduct_from_row(row))
        lookup(asm) ==
            product(asm, IF asm.products = <<>> THEN uuid5(product_content_key(row))
                         ELSE asm.products[1].k)
    IN lookup(Get(asms1, assembly_id))

\* update_project: the assembly is registered before the product is built, so
\* an exception from the product leaves the new assembly in the project; an
\* exception from add_row leaves what add_row had already written.
slice_update_project(project, row) ==
    LET assembly_id == uuid5(row.element_class_sfb)
        product_id == uuid5(product_content_key(row))
        asms1 == IF Has(project.assemblies, assembly_id) THEN project.assemblies
                 ELSE Put(project.assemblies, assembly_id, LCAxAssembly_from_row(row))
        store(asm, r) ==
            [err |-> r.err,
             val |-> [project EXCEPT !.assemblies =
                         Put(asms1, assembly_id,
                             [asm EXCEPT !.products =
                                 IF ~Has(asm.products, product_id) /\ r.err # ""
                                 THEN asm.products
                                 ELSE Put(asm.products, product_id, r.val)])]]
        product(asm) ==
            store(asm, IF Has(asm.products, product_id)
                       THEN LCAxProduct_add_row(Get(asm.products, product_id), row)
                       ELSE LCAxProduct_from_row(row))
    IN product(Get(asms1, assembly_id))

\* The loop body with the archetype registered before the project is built:
\* a row rejected by a normaliser leaves an empty entry behind.
slice_process_row_registers_first(projs, row) ==
    LET archetype == row.building_archetype_code
        stored(projs1, r) == [err |-> r.err, val |-> Put(projs1, archetype, r.val)]
        update(projs1) == stored(projs1, slice_update_project(Get(projs1, archetype), row))
        register(created) ==
            IF created.err # ""
            THEN [err |-> created.err,
                  val |-> IF Has(projs, archetype) THEN projs
                          ELSE Put(projs, archetype, <<>>)]
            ELSE update(IF Has(projs, archetype) THEN projs
                        ELSE Put(projs, archetype, created.val))
    IN register(IF Has(projs, archetype) THEN Ok(<<>>) ELSE LCAxProject_from_row(row))

\* The loop body with one assembly object per identifier for the whole run:
\* every project that holds the row's assembly identifier sees the assembly
\* the row has just written.
slice_process_row_shared(projs, row) ==
    LET archetype == row.building_archetype_code
        assembly_id == uuid5(row.element_class_sfb)
        shared(ps, asm) ==
            [i \in DOMAIN ps |->
                IF Has(ps[i].v.assemblies, assembly_id)
                THEN [k |-> ps[i].k,
                      v |-> [ps[i].v EXCEPT !.assemblies = Put(@, assembly_id, asm)]]
                ELSE ps[i]]
        stored(projs1, r) ==
            [err |-> r.err,
             val |-> shared(Put(projs1, archetype, r.val), Get(r.val.assemblies, assembly_id))]
        update(projs1) == stored(projs1, slice_update_project(Get(projs1, archetype), row))
        register(created) ==
            IF created.err # "" THEN [err |-> created.err, val |-> projs]
            ELSE update(IF Has(projs, archetype) THEN projs
                        ELSE Put(projs, archetype, created.val))
    IN register(IF Has(projs, archetype) THEN Ok(<<>>) ELSE LCAxProject_from_row(row))

\* One iteration of the loop of get_projects_by_archetypes: the result is the
\* projects dict after the row and the exception the row raised, if any.
slice_process_row(projs, row) ==
    LET archetype == row.building_archetype_code
        stored(projs1, r) == [err |-> r.err, val |-> Put(projs1, archetype, r.val)]
        update(projs1) == stored(projs1, slice_update_project(Get(projs1, archetype), row))
        register(created) ==
            IF created.err # "" THEN [err |-> created.err, val |-> projs]
            ELSE update(IF Has(projs, archetype) THEN projs
                        ELSE Put(projs, archetype, created.val))
    IN register(IF Has(projs, archetype) THEN Ok(<<>>) ELSE LCAxProject_from_row(row))

-----------------------------------------------------------------------------
(* SLiCE with its vocabularies in the code: src/slice.py *)

\* get_general_energy_class of src/slice.py: the same lists, another message.
flat_slice_get_general_energy_class(data) ==
    LET i == FirstMatch(SLICE_GENERAL_ENERGY_CLASS, data) IN
    IF i = 0 THEN Raise("NotImplementedError: Unknown energy class")
    ELSE Ok(SLICE_GENERAL_ENERGY_CLASS[i].variant)

\* LCAxProject.from_row of src/slice.py: the project is named "Unknown".
flat_LCAxProject_from_row(row) ==
    LET bt == slice_get_building_type(row)
        ty == slice_get_building_typology(row)
        ec == flat_slice_get_general_energy_class(row.building_energy_performance_name)
    IN IF bt.err # "" THEN Raise(bt.err)
       ELSE IF ty.err # "" THEN Raise(ty.err)
       ELSE IF ec.err # "" THEN Raise(ec.err)
       ELSE Ok([id |-> uuid5(row.building_archetype_code),
                name |-> "Unknown",
                location |-> slice_get_location(row),
                impact_categories |-> [i \in DOMAIN impact_sets |-> impact_sets[i].key],
                life_cycle_stages |-> SLICE_LIFE_CYCLE_STAGES,
                building_type |-> bt.val,
                building_typology |-> ty.val,
                general_energy_class |-> ec.val,
                assemblies |-> EmptyDict])

\* One iteration of the loop of get_projects_by_archetypes of src/slice.py.
flat_slice_process_row(projs, row) ==
    LET archetype == row.building_archetype_code
        stored(projs1, r) == [err |-> r.err, val |-> Put(projs1, archetype, r.val)]
        update(projs1) == stored(projs1, slice_update_project(Get(projs1, archetype), row))
        register(created) ==
            IF created.err # "" THEN [err |-> created.err, val |-> projs]
            ELSE update(IF Has(projs, archetype) THEN projs
                        ELSE Put(projs, archetype, created.val))
    IN register(IF Has(projs, archetype) THEN Ok(<<>>) ELSE flat_LCAxProject_from_row(row))

-----------------------------------------------------------------------------
(* lcax's calculate_project, which SLiCE calls on every project at the end *)

\* A record with one more field (or one field replaced).
AddField(rec, name, val) ==
    [f \in DOMAIN rec \cup {name} |-> IF f = name THEN val ELSE rec[f]]

\* The sum of one cell over a list of category -> stage -> value tables; a
\* table without the cell adds nothing.
RECURSIVE SumOver(_, _, _, _)
SumOver(results, key, stage, i) ==
    IF i > Len(results) THEN 0
    ELSE (IF Has(results[i], key) /\ Has(Get(results[i], key), stage)
          THEN Get(Get(results[i], key), stage) ELSE 0)
         + SumOver(results, key, stage, i + 1)

\* The roll-up of a list of tables: for each category asked for, the stages
\* asked for that some table has, each with the sum of its cells times the
\* quantity of the owner.
add_results(results, impact_categories, life_cycle_stages, quantity) ==
    LET present(key) ==
            SelectSeq(life_cycle_stages,
                      LAMBDA stage : \E i \in DOMAIN results :
                          Has(results[i], key) /\ Has(Get(results[i], key), stage))
        cells(key, stages) ==
            [j \in DOMAIN stages |->
                [k |-> stages[j], v |-> SumOver(results, key, stages[j], 1) * quantity]]
    IN [c \in DOMAIN impact_categories |->
           [k |-> impact_categories[c],
            v |-> cells(impact_categories[c], present(impact_categories[c]))]]

\* calculate_product: the impacts of the product's flow, per unit of product.
calculate_product(product, impact_categories, life_cycle_stages) ==
    AddField(product, "results",
             add_results(<<product.impact_data.impacts>>, impact_categories,
                         life_cycle_stages, product.quantity))

\* calculate_assembly: every product is calculated, and the assembly holds
\* the sum of their results.
calculate_assembly(assembly, impact_categories, life_cycle_stages) ==
    LET rolled(products) ==
            AddField([assembly EXCEPT !.products = products], "results",
                     add_results([i \in DOMAIN products |-> products[i].v.results],
                                 impact_categories, life_cycle_stages, assembly.quantity))
    IN rolled([i \in DOMAIN assembly.products |->
                  [k |-> assembly.products[i].k,
                   v |-> calculate_product(assembly.products[i].v, impact_categories,
                                           life_cycle_stages)]])

\* calculate_project: the categories and stages are those the project
\* declares; every assembly is calculated and the project holds the sum.
calculate_project(project) ==
    LET rolled(assemblies) ==
            AddField([project EXCEPT !.assemblies = assemblies], "results",
                     add_results([i \in DOMAIN assemblies |-> assemblies[i].v.results],
                                 project.impact_categories, project.life_cycle_stages, 1))
    IN rolled([i \in DOMAIN project.assemblies |->
                  [k |-> project.assemblies[i].k,
                   v |-> calculate_assembly(project.assemblies[i].v,
                                            project.impact_categories,
                                            project.life_cycle_stages)]])

\* for key, project in projects.items(): projects[key] = calculate_project(project)
calculate_projects(projs) ==
    [i \in DOMAIN projs |-> [k |-> projs[i].k, v |-> calculate_project(projs[i].v)]]

-----------------------------------------------------------------------------
(* Country resolution: iso3166's countries.get and lcax's Country *)

\* The records of iso3166 the inputs can name.
ISO_COUNTRIES ==
    { [name |-> "UNITED KINGDOM OF GREAT BRITAIN AND NORTHERN IRELAND",
       alpha2 |-> "GB", alpha3 |-> "GBR"],
      [name |-> "DENMARK", alpha2 |-> "DK", alpha3 |-> "DNK"] }

\* lcax's Country: the lower-cased alpha-3 codes, and "unknown".
Country == {"gbr", "dnk", "deu", "ita", "swe", "unknown"}

\* countries.get(key): key.upper() on None raises AttributeError; a string is
\* looked up upper-cased, by alpha-2, alpha-3 or name, and one that names no
\* record raises KeyError.
countries_get(data) ==
    IF IsNone(data) THEN Raise("AttributeError")
    ELSE LET k == upper(data[1])
             hits == {c \in ISO_COUNTRIES : k \in {c.alpha2, c.alpha3, c.name}}
         IN IF hits = {} THEN Raise("KeyError") ELSE Ok(CHOOSE c \in hits : TRUE)

\* for _country in Country: if _country.value == country.alpha3.lower(): return
\* _country -- falling off the loop returns None.
country_of_record(country) ==
    IF lower(country.alpha3) \in Country THEN Some(lower(country.alpha3)) ELSE None

-----------------------------------------------------------------------------
(* BECD: src/becd/becd.py *)

\* float(s) on the cells the inputs are drawn from: a cell that is no number
\* (the empty cell too) raises ValueError.
FloatTable == ("0" :> 0) @@ ("1" :> 1) @@ ("2" :> 2) @@ ("10" :> 10) @@ ("20" :> 20)
float(s) == IF s \in DOMAIN FloatTable THEN Ok(FloatTable[s]) ELSE Raise("ValueError")

\* get_country: KeyError from the lookup becomes Country.unknown; any other
\* exception goes through.
becd_get_country(data) ==
    LET found(country) ==
            IF country.err = "KeyError" THEN Ok(Some("unknown"))
            ELSE IF country.err # "" THEN Raise(country.err)
            ELSE Ok(country_of_record(country.val))
    IN found(countries_get(data))

\* get_location
becd_get_location(city, country) ==
    LET located(c) ==
            IF c.err # "" THEN Raise(c.err)
            ELSE Ok([country |-> c.val,
                     city |-> IF city # "" /\ lower(city) # "no data" THEN Some(city)
                              ELSE None])
    IN located(becd_get_country(country))

\* The synonym lists of BECD's building types.
BECD_BUILDING_TYPE ==
    << [variant |-> "new_construction_works", synonyms |-> {"new built"}] >>

becd_get_building_type(row) ==
    LET i == FirstMatch(BECD_BUILDING_TYPE, row.ProjectType) IN
    IF i = 0 THEN Raise("NotImplementedError: Unknown building type")
    ELSE Ok(BECD_BUILDING_TYPE[i].variant)

\* The (stage, column) pairs of "assemblies.results.gwp.*" and of
\* "results.gwp.*", in table order; each table is cut to two of its thirteen
\* stages, all of which are read by the same float(row[column]).
BECD_ASSEMBLY_RESULTS ==
    << [stage |-> "a1a3", column |-> "A1ToA3"], [stage |-> "a4", column |-> "A4"] >>
BECD_PROJECT_RESULTS ==
    << [stage |-> "a1a3", column |-> "Total_A1ToA3"], [stage |-> "a4", column |-> "Total_A4"] >>

\* results[gwp][stage] = float(row[column]) for every pair from i on; the
\* first cell that does not parse raises.
RECURSIVE read_results_from(_, _, _, _)
read_results_from(table, row, i, acc) ==
    IF i > Len(table) THEN Ok(<<[k |-> "gwp", v |-> acc]>>)
    ELSE LET x == float(row[table[i].column]) IN
         IF x.err # "" THEN Raise(x.err)
         ELSE read_results_from(table, row, i + 1, Put(acc, table[i].stage, x.val))

get_assembly_results(row) == read_results_from(BECD_ASSEMBLY_RESULTS, row, 1, EmptyDict)
get_project_results(row) == read_results_from(BECD_PROJECT_RESULTS, row, 1, EmptyDict)

\* project.assemblies = {assembly.id: assembly}: the row's assembly takes the
\* place of all the assemblies of the project.
becd_store_assembly_alone(assemblies, assembly) == <<[k |-> assembly.id, v |-> assembly]>>

\* project.assemblies[assembly.id] = assembly: the row's assembly, holding the
\* row's one product, is stored under its id whether or not the id is there.
becd_store_assembly(assemblies, assembly) == Put(assemblies, assembly.id, assembly)

\* update_project: nothing for a row with EmissionsIncluded = "No"; otherwise
\* a product and an assembly are built from the row alone and stored.
becd_update_project(project, row) ==
    IF row.EmissionsIncluded = "No" THEN Ok(project)
    ELSE LET res == get_assembly_results(row) IN
         IF res.err # "" THEN Raise(res.err)
         ELSE LET product ==
                    [id |-> uuid5(row.EntityElementName),
                     name |-> row.EntityElementName,
                     impact_data |-> [id |-> uuid5(row.EntityElementName),
                                      name |-> row.EntityElementName,
                                      impacts |-> res.val],
                     quantity |-> 1,
                     reference_service_life |-> row.RefStudyPeriod,
                     unit |-> "kg",
                     results |-> res.val]
                  assembly ==
                    [id |-> uuid5(row.EntityElementName),
                     name |-> row.EntityElementName,
                     quantity |-> 1,
                     unit |-> "kg",
                     products |-> <<[k |-> product.id, v |-> product]>>,
                     results |-> res.val]
              IN Ok([project EXCEPT !.assemblies = becd_store_assembly(@, assembly)])

\* "BECD-<n>".replace("BECD-", "") on the entity codes of the inputs.
strip_becd(code) ==
    CASE code = "BECD-1" -> "1"
      [] code = "BECD-2" -> "2"
      [] OTHER -> code

\* The first lines of add_project: the totals are read first, then the
\* project is built (the building type may raise).
becd_project_from_row(row) ==
    LET results == get_project_results(row)
        location == becd_get_location(row.Location, Some(row.Country))
        bt == becd_get_building_type(row)
    IN IF results.err # "" THEN Raise(results.err)
       ELSE IF location.err # "" THEN Raise(location.err)
       ELSE IF bt.err # "" THEN Raise(bt.err)
       ELSE Ok([id |-> strip_becd(row.EntityCode),
               name |-> row.EntityName,
               assemblies |-> EmptyDict,
               reference_study_period |-> row.RefStudyPeriod,
               impact_categories |-> <<"gwp">>,
               life_cycle_stages |-> KeyList(Get(results.val, "gwp")),
               location |-> location.val,
               results |-> results.val,
               building_type |-> bt.val,
               building_typology |-> <<"unknown">>,
               general_energy_class |-> "unknown"])

\* The logical keys of BECD's mapping table that the model follows: the
\* project id and name, and the id of a row's product.
BECD_MAPPING_KEYS == {"id", "name", "assemblies.products.id"}

\* MAPPING[key] for a key the table does not hold.
KeyError(key) == "KeyError: '" \o key \o "'"

\* update_project without the test of the flag: an excluded row is built into
\* an assembly like any other.
becd_update_project_ignores_flag(M, project, row) ==
    IF "assemblies.products.id" \notin M
    THEN Raise(KeyError("assemblies.products.id"))
    ELSE becd_update_project(project, [row EXCEPT !.EmissionsIncluded = "Yes"])

\* update_project under a mapping table: the flag is read from the row itself;
\* the first MAPPING lookup is that of the product id.
becd_update_project_mapped(M, project, row) ==
    IF row.EmissionsIncluded = "No" THEN Ok(project)
    ELSE IF "assemblies.products.id" \notin M
    THEN Raise(KeyError("assemblies.products.id"))
    ELSE becd_update_project(project, row)

\* add_project under a mapping table: the totals are read by walking the
\* table, the id and the name are looked up next, and update_project is the
\* last call.
add_project_mapped(M, row) ==
    LET built(p) == IF p.err # "" THEN p ELSE becd_update_project_mapped(M, p.val, row)
        totals(results) ==
            IF results.err # "" THEN Raise(results.err)
            ELSE IF "id" \notin M THEN Raise(KeyError("id"))
            ELSE IF "name" \notin M THEN Raise(KeyError("name"))
            ELSE built(becd_project_from_row(row))
    IN totals(get_project_results(row))

\* add_project: the project is built, then update_project adds the row's
\* assembly.
add_project(row) == add_project_mapped(BECD_MAPPING_KEYS, row)

\* The loop body with the totals read again from every row of a project: the
\* last row's totals replace those of the creating row.
becd_process_row_rereads_totals(M, projs, row) ==
    LET project_id == row.EntityCode
        totals(r, results) ==
            IF r.err # "" \/ results.err # "" THEN r
            ELSE Ok([r.val EXCEPT !.results = results.val])
        stored(r) == IF r.err # "" THEN [err |-> r.err, val |-> projs]
                     ELSE [err |-> "", val |-> Put(projs, project_id, r.val)]
    IN IF "id" \notin M THEN [err |-> KeyError("id"), val |-> projs]
       ELSE stored(IF Has(projs, project_id)
                   THEN totals(becd_update_project_mapped(M, Get(projs, project_id), row),
                               get_project_results(row))
                   ELSE add_project_mapped(M, row))

\* One iteration of the loop of process_projects under a mapping table:
\* projects[project_id] is assigned only when add_project returns.
becd_process_row_mapped(M, projs, row) ==
    LET project_id == row.EntityCode
        stored(r) == IF r.err # "" THEN [err |-> r.err, val |-> projs]
                     ELSE [err |-> "", val |-> Put(projs, project_id, r.val)]
    IN IF "id" \notin M THEN [err |-> KeyError("id"), val |-> projs]
       ELSE stored(IF Has(projs, project_id)
                   THEN becd_update_project_mapped(M, Get(projs, project_id), row)
                   ELSE add_project_mapped(M, row))

\* One iteration of the loop of process_projects: projects[project_id] is
\* assigned only when add_project returns.
becd_process_row(projs, row) == becd_process_row_mapped(BECD_MAPPING_KEYS, projs, row)

-----------------------------------------------------------------------------
(* CarbEnMats: src/carbenmats/carbenmats.py *)

\* get_country: the lookup's exception is not caught here.
carb_get_country(data) ==
    LET found(country) ==
            IF country.err # "" THEN Raise(country.err)
            ELSE Ok(country_of_record(country.val))
    IN found(countries_get(data))

\* get_value_or_none: None for an empty cell or "no data" in any case.
get_value_or_none(row, column) ==
    IF row[column] # "" /\ lower(row[column]) # "no data" THEN Some(row[column]) ELSE None

\* str.strip() on the titles of the inputs.
StripTable ==
    (" Tower " :> "Tower") @@ ("Tower " :> "Tower") @@ (" Tower" :> "Tower") @@
    (" No data " :> "No data") @@ (" no data " :> "no data") @@ (" " :> "")
strip(s) == IF s \in DOMAIN StripTable THEN StripTable[s] ELSE s

\* get_name
get_name(name) ==
    IF name = "" \/ lower(name) = "no data" THEN "Undefined" ELSE strip(name)

\* The synonym lists of CarbEnMats' building types.
CARB_BUILDING_TYPE ==
    << [variant |-> "new_construction_works", synonyms |-> {"new construction"}],
       [variant |-> "other", synonyms |-> {"no data"}],
       [variant |-> "retrofit_works", synonyms |-> {"refurbishment"}],
       [variant |-> "operations", synonyms |-> {"existing building"}] >>

carb_get_building_type(row) ==
    LET i == FirstMatch(CARB_BUILDING_TYPE, row.bldg_project_type) IN
    IF i = 0 THEN Raise("NotImplementedError: Unknown building type")
    ELSE Ok(CARB_BUILDING_TYPE[i].variant)

\* The (stage, column) pairs of "results.gwp.*", cut to two of the six.
CARB_RESULTS ==
    << [stage |-> "a1a3", column |-> "GHG_A123_total"],
       [stage |-> "a4", column |-> "GHG_A45_total"] >>

\* get_results: a cell that is not empty is parsed and scaled by 50; no stage
\* at all gives None.
RECURSIVE carb_results_from(_, _, _)
carb_results_from(row, i, acc) ==
    IF i > Len(CARB_RESULTS)
    THEN Ok(IF acc = EmptyDict THEN None ELSE Some(<<[k |-> "gwp", v |-> acc]>>))
    ELSE IF row[CARB_RESULTS[i].column] = "" THEN carb_results_from(row, i + 1, acc)
    ELSE LET x == float(row[CARB_RESULTS[i].column]) IN
         IF x.err # "" THEN Raise(x.err)
         ELSE carb_results_from(row, i + 1, Put(acc, CARB_RESULTS[i].stage, x.val * 50))

carb_get_results(row) == carb_results_from(row, 1, EmptyDict)

\* int(s) on the cells the inputs are drawn from.
IntTable == ("2020" :> 2020) @@ ("100" :> 100)
int(s) == IF s \in DOMAIN IntTable THEN Ok(IntTable[s]) ELSE Raise("ValueError")

\* get_year: int(cell), and None for a cell int() rejects.
get_year(row, column) ==
    LET year(n) == IF n.err = "ValueError" THEN None ELSE Some(n.val)
    IN year(int(row[column]))

\* A Python value of one of two types in one field: the number of a default,
\* or the text of a cell.
PyInt(n) == [type |-> "int", val |-> n]
PyStr(t) == [type |-> "str", val |-> t]

\* `value or default` for an optional cell.
or_default(value, default) == IF IsNone(value) THEN default ELSE PyStr(value[1])

\* json.dumps(row): the text of the row, the same for equal rows.
json_dumps(row) == ToString(row)

\* convert_row: the results, then the arguments of Project in order.
carb_convert_row(row) ==
    LET results == carb_get_results(row)
        country == carb_get_country(get_value_or_none(row, "site_country_iso2"))
        bt == carb_get_building_type(row)
    IN IF results.err # "" THEN Raise(results.err)
       ELSE IF country.err # "" THEN Raise(country.err)
       ELSE IF bt.err # "" THEN Raise(bt.err)
       ELSE Ok([id |-> uuid5(json_dumps(row)),
                assemblies |-> EmptyDict,
                impact_categories |-> IF IsNone(results.val) THEN <<>> ELSE <<"gwp">>,
                life_cycle_stages |-> IF IsNone(results.val) THEN <<>>
                                      ELSE KeyList(Get(results.val[1], "gwp")),
                location |-> [country |-> country.val,
                              city |-> get_value_or_none(row, "site_region_local")],
                name |-> get_name(row.meta_title),
                gross_floor_area |->
                    [value |-> or_default(get_value_or_none(row, "bldg_area_gfa"), PyInt(0)),
                     definition |-> or_default(get_value_or_none(row, "bldg_area_definition"),
                                               PyStr(""))],
                building_type |-> bt.val,
                assessment_year |-> get_year(row, "meta_year"),
                results |-> results.val])

-----------------------------------------------------------------------------
(* CarbEnMats with its vocabularies in the code: src/carbenmats.py *)

\* get_name of src/carbenmats.py: "Unknown" for no title, and the title as
\* it is written otherwise.
flat_get_name(name) ==
    IF name = "" \/ lower(name) = "no data" THEN "Unknown" ELSE name

\* get_location of src/carbenmats.py: the country cell goes to the lookup as
\* it is; the city is dropped when empty or "no data".
flat_carb_get_location(country, city) ==
    LET located(c) ==
            IF c.err # "" THEN Raise(c.err)
            ELSE Ok([country |-> c.val,
                     city |-> IF city # "" /\ lower(city) # "no data" THEN Some(city)
                              ELSE None])
    IN located(carb_get_country(Some(country)))

\* convert_row of src/carbenmats.py: the cells of the area and of the year go
\* into the project as they are.
flat_carb_convert_row(row) ==
    LET results == carb_get_results(row)
        location == flat_carb_get_location(row.site_country_iso2, row.site_region_local)
        bt == carb_get_building_type(row)
    IN IF results.err # "" THEN Raise(results.err)
       ELSE IF location.err # "" THEN Raise(location.err)
       ELSE IF bt.err # "" THEN Raise(bt.err)
       ELSE Ok([id |-> uuid5(json_dumps(row)),
                assemblies |-> EmptyDict,
                impact_categories |-> IF IsNone(results.val) THEN <<>> ELSE <<"gwp">>,
                life_cycle_stages |-> IF IsNone(results.val) THEN <<>>
                                      ELSE KeyList(Get(results.val[1], "gwp")),
                location |-> location.val,
                name |-> flat_get_name(row.meta_title),
                gross_floor_area |->
                    [value |-> IF row.bldg_area_gfa # "" THEN PyStr(row.bldg_area_gfa)
                               ELSE PyInt(0),
                     definition |-> PyStr(row.bldg_area_definition)],
                building_type |-> bt.val,
                meta_data |-> [assessment_year |-> row.meta_year],
                results |-> results.val])

-----------------------------------------------------------------------------
(* Structural Panda with its vocabularies in the code: src/structural_panda.py *)

\* `word in text.lower()` for the sector words get_building_typology looks for.
SectorWords ==
    ("office" :> {"office"}) @@ ("residential/office" :> {"residential", "office"})
contains(word, text) == text \in DOMAIN SectorWords /\ word \in SectorWords[text]

\* The sector words in the order of the `if` statements, with their variants.
PANDA_TYPOLOGY_WORDS ==
    << [word |-> "office", variant |-> "office"],
       [word |-> "residential", variant |-> "residential"],
       [word |-> "public", variant |-> "public"],
       [word |-> "commercial", variant |-> "commercial"],
       [word |-> "industrial", variant |-> "industrial"],
       [word |-> "infrastructure", variant |-> "infrastructure"],
       [word |-> "agricultural", variant |-> "agricultural"] >>

\* The whole-value matches that follow them.
PANDA_TYPOLOGY_VALUES ==
    << [synonyms |-> {"educational", "healthcare"}, variant |-> "public"],
       [synonyms |-> {"other", "mixed use"}, variant |-> "other"],
       [synonyms |-> {"science/lab"}, variant |-> "industrial"] >>

\* The variants of the entries of a list whose positions are in `hits`, in
\* list order.
RECURSIVE VariantsAt(_, _, _)
VariantsAt(list, hits, i) ==
    IF i > Len(list) THEN <<>>
    ELSE (IF i \in hits THEN <<list[i].variant>> ELSE <<>>) \o VariantsAt(list, hits, i + 1)

\* get_building_typology: every variant whose test passes; none raises.
panda_get_building_typology(_typo) ==
    LET byWord == {i \in DOMAIN PANDA_TYPOLOGY_WORDS :
                     contains(PANDA_TYPOLOGY_WORDS[i].word, lower(_typo))}
        byValue == {i \in DOMAIN PANDA_TYPOLOGY_VALUES :
                      lower(_typo) \in PANDA_TYPOLOGY_VALUES[i].synonyms}
        typology == VariantsAt(PANDA_TYPOLOGY_WORDS, byWord, 1)
                      \o VariantsAt(PANDA_TYPOLOGY_VALUES, byValue, 1)
    IN IF typology = <<>> THEN Raise("NotImplementedError: Unknown building typology")
       ELSE Ok(typology)

\* get_building_type: the value is compared as it is written.
panda_get_building_type(_type) ==
    IF _type \in {"New Build (Brownfield)", "New Build (Greenfield)"}
    THEN Ok("new_construction_works")
    ELSE IF _type = "Mixed New Build/Refurb"
    THEN Ok("deconstruction_and_new_construction_works")
    ELSE IF _type = "Full Refurb" THEN Ok("retrofit_works")
    ELSE Raise("NotImplementedError: Unknown building type")

\* str(uuid4()): any identifier; two calls need not agree.
Uuid4Values == {"uuid4:0b5c", "uuid4:9f1e"}

\* convert_row, with the value uuid4() returned for the assembly: the results
\* are parsed first (a5 is the sum of two cells), then the assembly and the
\* project are built.
panda_convert_row(row, uuid4) ==
    LET a1a3 == float(row.Carbon_A1_A3)
        a5a == float(row.Carbon_A5a)
        a5w == float(row.Carbon_A5w)
        bt == panda_get_building_type(row.Type)
        ty == panda_get_building_typology(row.Project_Sector)
    IN IF a1a3.err # "" THEN Raise(a1a3.err)
       ELSE IF a5a.err # "" THEN Raise(a5a.err)
       ELSE IF a5w.err # "" THEN Raise(a5w.err)
       ELSE IF bt.err # "" THEN Raise(bt.err)
       ELSE IF ty.err # "" THEN Raise(ty.err)
       ELSE LET results ==
                  <<[k |-> "gwp",
                     v |-> <<[k |-> "a1a3", v |-> a1a3.val],
                             [k |-> "a5", v |-> a5a.val + a5w.val]>>]>>
                assembly ==
                  [id |-> uuid4, name |-> "Building", products |-> EmptyDict,
                   quantity |-> 1, results |-> results, unit |-> "pcs"]
            IN Ok([id |-> uuid5(json_dumps(row)),
                   assemblies |-> <<[k |-> assembly.id, v |-> assembly]>>,
                   impact_categories |-> <<"gwp">>,
                   location |-> [country |-> Some("gbr"), city |-> None],
                   name |-> "Undefined",
                   building_type |-> bt.val,
                   building_typology |-> ty.val,
                   results |-> results])

-----------------------------------------------------------------------------
(* Structural Panda under its mapping table:
   src/structural_panda/structural_panda.py *)

\* The "building_typology.<variant>" lists of the mapping table: the sector
\* names of each variant.
PANDA_BUILDING_TYPOLOGY ==
    << [variant |-> "office", synonyms |-> {"office"}],
       [variant |-> "residential", synonyms |-> {"residential"}],
       [variant |-> "public", synonyms |-> {"public", "educational", "healthcare"}],
       [variant |-> "commercial", synonyms |-> {"commercial"}],
       [variant |-> "industrial", synonyms |-> {"industrial", "science/lab"}],
       [variant |-> "infrastructure", synonyms |-> {"infrastructure"}],
       [variant |-> "agricultural", synonyms |-> {"agricultural"}],
       [variant |-> "other", synonyms |-> {"other", "mixed use"}] >>

\* The "building_type.<variant>" lists of the mapping table.
PANDA_BUILDING_TYPE ==
    << [variant |-> "new_construction_works",
        synonyms |-> {"new build (brownfield)", "new build (greenfield)"}],
       [variant |-> "deconstruction_and_new_construction_works",
        synonyms |-> {"mixed new build/refurb"}],
       [variant |-> "retrofit_works", synonyms |-> {"full refurb"}] >>

\* get_building_typology: the variant of every non-empty list that holds the
\* lower-cased sector, in table order; none raises.
mapped_panda_get_building_typology(row) ==
    LET building_typology ==
            VariantsAt(PANDA_BUILDING_TYPOLOGY,
                       {i \in DOMAIN PANDA_BUILDING_TYPOLOGY :
                           /\ PANDA_BUILDING_TYPOLOGY[i].synonyms # {}
                           /\ lower(row.Project_Sector)
                                \in PANDA_BUILDING_TYPOLOGY[i].synonyms},
                       1)
    IN IF building_typology = <<>>
       THEN Raise("NotImplementedError: Unknown building typology")
       ELSE Ok(building_typology)

\* get_building_type: the variant of the first list that holds the lower-cased
\* type.
mapped_panda_get_building_type(row) ==
    LET i == FirstMatch(PANDA_BUILDING_TYPE, row.Type) IN
    IF i = 0 THEN Raise("NotImplementedError: Unknown building type")
    ELSE Ok(PANDA_BUILDING_TYPE[i].variant)

\* get_results: a stage with one column is read when its cell is not empty;
\* a5 is the sum of its two cells, read whatever they hold.
mapped_panda_get_results(row) ==
    LET a1a3 == IF row.Carbon_A1_A3 = "" THEN Ok(<<>>)
                ELSE float(row.Carbon_A1_A3)
        a5a == float(row.Carbon_A5a)
        a5w == float(row.Carbon_A5w)
    IN IF a1a3.err # "" THEN Raise(a1a3.err)
       ELSE IF a5a.err # "" THEN Raise(a5a.err)
       ELSE IF a5w.err # "" THEN Raise(a5w.err)
       ELSE Ok(Some(<<[k |-> "gwp",
                       v |-> (IF row.Carbon_A1_A3 = "" THEN <<>>
                              ELSE <<[k |-> "a1a3", v |-> a1a3.val]>>)
                             \o <<[k |-> "a5", v |-> a5a.val + a5w.val]>>]>>))

\* convert_row: the results, then the arguments of Project in order; the
\* project has no assembly.
mapped_panda_convert_row(row) ==
    LET results == mapped_panda_get_results(row)
        bt == mapped_panda_get_building_type(row)
        ty == mapped_panda_get_building_typology(row)
    IN IF results.err # "" THEN Raise(results.err)
       ELSE IF bt.err # "" THEN Raise(bt.err)
       ELSE IF ty.err # "" THEN Raise(ty.err)
       ELSE Ok([id |-> uuid5(json_dumps(row)),
                assemblies |-> EmptyDict,
                impact_categories |-> IF IsNone(results.val) THEN <<>>
                                      ELSE KeyList(results.val[1]),
                life_cycle_stages |-> IF IsNone(results.val) THEN <<>>
                                      ELSE KeyList(Get(results.val[1], "gwp")),
                location |-> [country |-> Some("gbr"), city |-> None],
                name |-> "Undefined",
                building_type |-> bt.val,
                building_typology |-> ty.val,
                results |-> results.val])

-----------------------------------------------------------------------------
(* The runs *)

\* The two SLiCE loaders, and the loaders that merge rows into projects.
SliceConverters == {"slice", "slice_flat"}
Mergers == SliceConverters \cup {"becd"}

\* A loop that catches the exception of a row and goes on to the next one.
after_row_continue(err) == "loop"

\* What the loop does after a row: an exception leaves it and ends the run.
after_row(err) == IF err = "" THEN "loop" ELSE "raised"

\* for row in table: ... update_project(projects[archetype], row), on a table
\* of at most N rows.
SliceRowUpTo(RowSet, N) ==
    /\ conv = "slice"
    /\ pc = "loop"
    /\ Len(rows) < N
    /\ \E row \in RowSet :
         LET step(r) ==
                 /\ rows' = Append(rows, row)
                 /\ projects' = r.val
                 /\ error' = r.err
                 /\ pc' = after_row(r.err)
         IN step(slice_process_row(projects, row))
    /\ UNCHANGED <<conv, lcax_data, saved, MAPPING>>

SliceRow(RowSet) == SliceRowUpTo(RowSet, MaxRows)

\* The same loop in src/slice.py.
SliceFlatRow(RowSet) ==
    /\ conv = "slice_flat"
    /\ pc = "loop"
    /\ Len(rows) < MaxRows
    /\ \E row \in RowSet :
         LET step(r) ==
                 /\ rows' = Append(rows, row)
                 /\ projects' = r.val
                 /\ error' = r.err
                 /\ pc' = after_row(r.err)
         IN step(flat_slice_process_row(projects, row))
    /\ UNCHANGED <<conv, lcax_data, saved, MAPPING>>

\* for index, row in enumerate(reader): ... add_project / update_project, on a
\* file of at most N rows.
BecdRowUpTo(RowSet, N) ==
    /\ conv = "becd"
    /\ pc = "loop"
    /\ Len(rows) < N
    /\ \E row \in RowSet :
         LET step(r) ==
                 /\ rows' = Append(rows, row)
                 /\ projects' = r.val
                 /\ error' = r.err
                 /\ pc' = after_row(r.err)
         IN step(becd_process_row_mapped(MAPPING, projects, row))
    /\ UNCHANGED <<conv, lcax_data, saved, MAPPING>>

BecdRow(RowSet) == BecdRowUpTo(RowSet, MaxRows)

\* The end of the input of a merger.  SLiCE replaces every project by what
\* lcax's calculate_project returns for it; then the projects are dumped in
\* dict order and the loader hands the list to save_data.
MergerFinish ==
    /\ conv \in Mergers
    /\ pc = "loop"
    /\ LET finish(projs) ==
               /\ projects' = projs
               /\ lcax_data' = Values(projs)
               /\ saved' = Append(saved, Values(projs))
       IN finish(IF conv = "becd" THEN projects ELSE calculate_projects(projects))
    /\ pc' = "saved"
    /\ UNCHANGED <<conv, rows, error, MAPPING>>

InitRun(Convs) ==
    /\ conv \in Convs
    /\ MAPPING = BECD_MAPPING_KEYS
    /\ rows = <<>>
    /\ projects = EmptyDict
    /\ lcax_data = <<>>
    /\ pc = "loop"
    /\ error = ""
    /\ saved = <<>>

\* The rows of a SLiCE table with nothing to reject: every combination of two
\* archetypes, two element classes, an empty or set work-section code, two
\* flows, two stages and two values.
SliceRows ==
    [building_archetype_code : {"CON_MFH_NEW_STD", "NOR_SFH_EXB_AVG"},
     stock_region_name : {"Continental"},
     stock_activity_type_name : {"New buildings"},
     building_use_subtype_name : {"Multi-family house"},
     building_energy_performance_name : {"Standard"},
     element_class_sfb : {"(21)", "(27)"},
     element_class_generic_name : {"Element"},
     worksection_class_sfb : {"", "F10"},
     techflow_name_mmg : {"flow-1", "flow-2"},
     LCS_EN15978 : {"A1-3", "B6"},
     ind_GWP_Tot : {Some(1), Some(2)},
     ind_ODP : {Some(1)}]

\* The rows of a BECD export with nothing to reject.
BecdRows ==
    [EntityCode : {"BECD-1", "BECD-2"},
     EntityName : {"Tower"},
     EmissionsIncluded : {"Yes", "No"},
     EntityElementName : {"Slab", "Wall"},
     RefStudyPeriod : {"60"},
     A1ToA3 : {"1", "2"},
     A4 : {"0"},
     Total_A1ToA3 : {"10", "20"},
     Total_A4 : {"0"},
     ProjectType : {"New Built"},
     Country : {"GB"},
     Location : {"London"}]

\* The mergers on rows that are all well-formed.
Init == InitRun({"slice", "becd"})
Next == SliceRow(SliceRows) \/ BecdRow(BecdRows) \/ MergerFinish
Spec == Init /\ [][Next]_vars

\* for index, row in enumerate(reader): lcax_data.append(convert_row(row))
CarbRow(RowSet) ==
    /\ conv = "carbenmats"
    /\ pc = "loop"
    /\ Len(rows) < MaxRows
    /\ \E row \in RowSet :
         LET step(r) ==
                 /\ rows' = Append(rows, row)
                 /\ lcax_data' = IF r.err = "" THEN Append(lcax_data, r.val) ELSE lcax_data
                 /\ error' = r.err
                 /\ pc' = after_row(r.err)
         IN step(carb_convert_row(row))
    /\ UNCHANGED <<conv, projects, saved, MAPPING>>

PandaRow(RowSet) ==
    /\ conv = "structural_panda"
    /\ pc = "loop"
    /\ Len(rows) < MaxRows
    /\ \E row \in RowSet, uuid4 \in Uuid4Values :
         LET step(r) ==
                 /\ rows' = Append(rows, row)
                 /\ lcax_data' = IF r.err = "" THEN Append(lcax_data, r.val) ELSE lcax_data
                 /\ error' = r.err
                 /\ pc' = after_row(r.err)
         IN step(panda_convert_row(row, uuid4))
    /\ UNCHANGED <<conv, projects, saved, MAPPING>>

\* The same loop in src/carbenmats.py.
CarbFlatRow(RowSet) ==
    /\ conv = "carbenmats_flat"
    /\ pc = "loop"
    /\ Len(rows) < MaxRows
    /\ \E row \in RowSet :
         LET step(r) ==
                 /\ rows' = Append(rows, row)
                 /\ lcax_data' = IF r.err = "" THEN Append(lcax_data, r.val) ELSE lcax_data
                 /\ error' = r.err
                 /\ pc' = after_row(r.err)
         IN step(flat_carb_convert_row(row))
    /\ UNCHANGED <<conv, projects, saved, MAPPING>>

\* The same loop in src/structural_panda/structural_panda.py.
PandaMappedRow(RowSet) ==
    /\ conv = "structural_panda_mapped"
    /\ pc = "loop"
    /\ Len(rows) < MaxRows
    /\ \E row \in RowSet :
         LET step(r) ==
                 /\ rows' = Append(rows, row)
                 /\ lcax_data' = IF r.err = "" THEN Append(lcax_data, r.val) ELSE lcax_data
                 /\ error' = r.err
                 /\ pc' = after_row(r.err)
         IN step(mapped_panda_convert_row(row))
    /\ UNCHANGED <<conv, projects, saved, MAPPING>>

\* The converters that build one project per row.
RowConverters ==
    {"carbenmats", "carbenmats_flat", "structural_panda", "structural_panda_mapped"}

\* The end of the input of a row converter: save_data(lcax_data, ...).
ConverterFinish ==
    /\ conv \in RowConverters
    /\ pc = "loop"
    /\ saved' = Append(saved, lcax_data)
    /\ pc' = "saved"
    /\ UNCHANGED <<conv, rows, projects, lcax_data, error, MAPPING>>

\* SLiCE rows, some of which are rejected: an unknown region, activity type,
\* use subtype or energy performance, an unknown stage, a null impact value.
SliceRowsAny ==
    [building_archetype_code : {"CON_MFH_NEW_STD", "NOR_SFH_EXB_AVG"},
     stock_region_name : {"Nordic", "Atlantis"},
     stock_activity_type_name : {"New buildings", "Skyscraper"},
     building_use_subtype_name : {"Office", "Castle"},
     building_energy_performance_name : {"Standard", "Passive"},
     element_class_sfb : {"(21)"},
     element_class_generic_name : {"Element"},
     worksection_class_sfb : {""},
     techflow_name_mmg : {"flow-1"},
     LCS_EN15978 : {"A1-3", "ZZ"},
     ind_GWP_Tot : {Some(1), None},
     ind_ODP : {Some(1), None}]

\* BECD rows, some of which are rejected: an unknown project type, a cell
\* that is no number; and countries iso3166 does not know.
BecdRowsAny ==
    [EntityCode : {"BECD-1", "BECD-2"},
     EntityName : {"Tower"},
     EmissionsIncluded : {"Yes", "No"},
     EntityElementName : {"Slab"},
     RefStudyPeriod : {"60"},
     A1ToA3 : {"1", ""},
     A4 : {"0"},
     Total_A1ToA3 : {"10", "n/a"},
     Total_A4 : {"0"},
     ProjectType : {"New Built", "Demolition"},
     Country : {"gb", "Denmark", "Atlantis"},
     Location : {"London"}]

\* CarbEnMats rows, likewise.
CarbRowsAny ==
    [site_country_iso2 : {"dk", "Atlantis", "No data"},
     site_region_local : {"no data"},
     meta_title : {" Tower "},
     bldg_project_type : {"New Construction", "Demolition"},
     bldg_area_gfa : {"100", "No data"},
     bldg_area_definition : {""},
     meta_year : {"2020", "20x4"},
     GHG_A123_total : {"1", "", "n/a", "No data"},
     GHG_A45_total : {""}]

\* Structural Panda rows, likewise.
PandaRowsAny ==
    [Type : {"Full Refurb", "full refurb", "Extension"},
     Project_Sector : {"Office", "Residential/Office", "Zoo"},
     Carbon_A1_A3 : {"1", "n/a"},
     Carbon_A5a : {"1"},
     Carbon_A5w : {"2"}]

\* Every loader, on rows of which some are rejected.
InitLoad ==
    InitRun(Mergers \cup RowConverters)
NextLoad ==
    \/ SliceRow(SliceRowsAny)
    \/ SliceFlatRow(SliceRowsAny)
    \/ BecdRow(BecdRowsAny)
    \/ MergerFinish
    \/ CarbRow(CarbRowsAny)
    \/ CarbFlatRow(CarbRowsAny)
    \/ PandaRow(PandaRowsAny)
    \/ PandaMappedRow(PandaRowsAny)
    \/ ConverterFinish
SpecLoad == InitLoad /\ [][NextLoad]_vars

\* The rows of mergers whose projects, assemblies and products come in any
\* order: two projects, two elements and two flows.
SliceOrderRows ==
    [building_archetype_code : {"CON_MFH_NEW_STD", "NOR_SFH_EXB_AVG"},
     stock_region_name : {"Continental"},
     stock_activity_type_name : {"New buildings"},
     building_use_subtype_name : {"Multi-family house"},
     building_energy_performance_name : {"Standard"},
     element_class_sfb : {"(21)", "(27)"},
     element_class_generic_name : {"Element"},
     worksection_class_sfb : {""},
     techflow_name_mmg : {"flow-1", "flow-2"},
     LCS_EN15978 : {"A1-3"},
     ind_GWP_Tot : {Some(1)},
     ind_ODP : {Some(1)}]
BecdOrderRows ==
    [EntityCode : {"BECD-1", "BECD-2"},
     EntityName : {"Tower"},
     EmissionsIncluded : {"Yes", "No"},
     EntityElementName : {"Slab", "Wall"},
     RefStudyPeriod : {"60"},
     A1ToA3 : {"1"},
     A4 : {"0"},
     Total_A1ToA3 : {"10"},
     Total_A4 : {"0"},
     ProjectType : {"New Built"},
     Country : {"GB"},
     Location : {"London"}]

\* The rows of a SLiCE table that all go to one product of one assembly of
\* one project, under two element names, two flow names, two stages and two
\* values.
SliceRepeatRows ==
    [building_archetype_code : {"CON_MFH_NEW_STD"},
     stock_region_name : {"Continental"},
     stock_activity_type_name : {"New buildings"},
     building_use_subtype_name : {"Multi-family house"},
     building_energy_performance_name : {"Standard"},
     element_class_sfb : {"(21)"},
     element_class_generic_name : {"Element", "Floor"},
     worksection_class_sfb : {"F10"},
     techflow_name_mmg : {"flow-1", "flow-2"},
     LCS_EN15978 : {"A1-3", "B1"},
     ind_GWP_Tot : {Some(1), Some(2)},
     ind_ODP : {Some(1)}]

\* SLiCE on such rows.
InitRepeat == InitRun({"slice"})
NextRepeat == SliceRowUpTo(SliceRepeatRows, MaxRepeatRows) \/ MergerFinish
SpecRepeat == InitRepeat /\ [][NextRepeat]_vars

\* The rows of a SLiCE table that all go to one product, under two stages and
\* two values in each of the impact columns.
SlicePermuteRows ==
    [building_archetype_code : {"CON_MFH_NEW_STD"},
     stock_region_name : {"Continental"},
     stock_activity_type_name : {"New buildings"},
     building_use_subtype_name : {"Multi-family house"},
     building_energy_performance_name : {"Standard"},
     element_class_sfb : {"(21)"},
     element_class_generic_name : {"Element"},
     worksection_class_sfb : {"F10"},
     techflow_name_mmg : {"flow-1"},
     LCS_EN15978 : {"A1-3", "B6"},
     ind_GWP_Tot : {Some(1), Some(2)},
     ind_ODP : {Some(1), Some(2)}]

\* SLiCE on such rows.
NextPermute == SliceRowUpTo(SlicePermuteRows, MaxPermuteRows) \/ MergerFinish
SpecPermute == InitRepeat /\ [][NextPermute]_vars

\* The rows of a BECD export whose entity codes come with and without the
\* "BECD-" prefix.
BecdCodeRows ==
    [EntityCode : {"BECD-1", "1", "BECD-2"},
     EntityName : {"Tower"},
     EmissionsIncluded : {"Yes", "No"},
     EntityElementName : {"Slab", "Wall"},
     RefStudyPeriod : {"60"},
     A1ToA3 : {"1"},
     A4 : {"0"},
     Total_A1ToA3 : {"10"},
     Total_A4 : {"0"},
     ProjectType : {"New Built"},
     Country : {"GB"},
     Location : {"London"}]

\* BECD on such rows.
InitCodes == InitRun({"becd"})
NextCodes == BecdRow(BecdCodeRows) \/ MergerFinish
SpecCodes == InitCodes /\ [][NextCodes]_vars

\* The mergers on such rows.
NextOrder ==
    \/ SliceRowUpTo(SliceOrderRows, MaxOrderRows)
    \/ BecdRowUpTo(BecdOrderRows, MaxOrderRows)
    \/ MergerFinish
SpecOrder == Init /\ [][NextOrder]_vars

-----------------------------------------------------------------------------
(* The normalisers of the mapping-driven converters, on any mapping table *)

\* The last entry that matches instead of the first.
LastMatch(table, data) ==
    LET hits == {i \in DOMAIN table :
                    table[i].synonyms # {} /\ lower(data) \in table[i].synonyms}
    IN IF hits = {} THEN 0 ELSE CHOOSE i \in hits : \A j \in hits : i >= j

\* The entry get_building_type, get_roof_type and get_general_energy_class
\* return: that of the first "<family>.<variant>" key with a non-empty list
\* holding the lower-cased value.
MatchOf(table, data) == FirstMatch(table, data)

\* A single-valued normaliser on the table of its family.
get_single(family, table, data) ==
    LET found(i) == IF i = 0 THEN Raise("NotImplementedError: Unknown " \o family)
                    ELSE Ok(table[i].variant)
    IN found(MatchOf(table, data))

\* get_building_typology of slice and carbenmats: the first match, in a list.
get_building_typology_first(table, data) ==
    LET found(i) == IF i = 0 THEN Raise("NotImplementedError: Unknown building typology")
                    ELSE Ok(<<table[i].variant>>)
    IN found(FirstMatch(table, data))

\* get_building_typology of structural_panda: every match, in table order.
get_building_typology_all(table, data) ==
    LET found(building_typology) ==
            IF building_typology = <<>>
            THEN Raise("NotImplementedError: Unknown building typology")
            ELSE Ok(building_typology)
    IN found(VariantsAt(table,
                        {i \in DOMAIN table :
                            table[i].synonyms # {} /\ lower(data) \in table[i].synonyms},
                        1))

\* The normalisers that are followed: (converter, family).
Normalisers ==
    { [converter |-> "structural_panda", family |-> "building typology"],
      [converter |-> "slice", family |-> "building typology"],
      [converter |-> "carbenmats", family |-> "building typology"],
      [converter |-> "becd", family |-> "building type"],
      [converter |-> "carbenmats", family |-> "roof type"] }

\* The "<family>.<variant>" entries of a mapping table, in table order: lists
\* that share no synonym, lists that share one, and an empty list first.
VariantsOf(family) ==
    CASE family = "building typology" -> <<"office", "commercial">>
      [] family = "building type" -> <<"new_construction_works", "retrofit_works">>
      [] family = "roof type" -> <<"flat", "pitched">>
SynonymLists == { <<{"alpha"}, {"beta"}>>, <<{"alpha"}, {"alpha", "beta"}>>, <<{}, {"alpha"}>> }
TableOf(family, lists) ==
    [i \in DOMAIN lists |-> [variant |-> VariantsOf(family)[i], synonyms |-> lists[i]]]

\* The calls: a normaliser, the table of its family, a raw value.
Calls ==
    { [converter |-> n.converter, family |-> n.family,
       table |-> TableOf(n.family, lists), data |-> data] :
        n \in Normalisers, lists \in SynonymLists, data \in {"Alpha", "ALPHA", "Zoo"} }

\* What the call returns or raises.
normalise(call) ==
    IF call.family = "building typology"
    THEN IF call.converter = "structural_panda"
         THEN get_building_typology_all(call.table, call.data)
         ELSE get_building_typology_first(call.table, call.data)
    ELSE get_single(call.family, call.table, call.data)

\* A call of a normaliser: `rows` keeps the calls, `lcax_data` their outcomes.
Normalise ==
    /\ conv = "normalise"
    /\ Len(rows) < MaxCalls
    /\ \E call \in Calls :
         /\ rows' = Append(rows, call)
         /\ lcax_data' = Append(lcax_data, normalise(call))
    /\ UNCHANGED <<conv, projects, pc, error, saved, MAPPING>>

InitNormalise == InitRun({"normalise"})
SpecNormalise == InitNormalise /\ [][Normalise]_vars

-----------------------------------------------------------------------------
(* BECD's thermal envelope area, in the flat and in the mapping-driven file *)

\* The columns of "meta_data.thermal_envelope_area.value", in table order.
BECD_THERMAL_ENVELOPE_AREA == <<"FacadeArea", "RoofArea">>

\* float(row[key] or 0): an empty cell is the number 0.
float_or_0(cell) == IF cell = "" THEN Ok(0) ELSE float(cell)

\* sum(values) over the list [float(row[key] or 0) for key in ...] from i on;
\* the first cell that does not parse raises.
RECURSIVE sum_floats_from(_, _, _)
sum_floats_from(row, i, acc) ==
    IF i > Len(BECD_THERMAL_ENVELOPE_AREA) THEN Ok(acc)
    ELSE LET next(x) == IF x.err # "" THEN Raise(x.err)
                        ELSE sum_floats_from(row, i + 1, acc + x.val)
         IN next(float_or_0(row[BECD_THERMAL_ENVELOPE_AREA[i]]))

\* get_thermal_envelope_area of becd/becd.py: the "value" of the record.
get_thermal_envelope_area(row) == sum_floats_from(row, 1, 0)

\* The "value" of thermal_envelope_area in add_project of the flat becd.py:
\*   float(F) if F else 0 + float(R) if R else 0
\* is  float(F) if F else ((0 + float(R)) if R else 0).
flat_thermal_envelope_area(row) ==
    LET plus(x) == IF x.err # "" THEN Raise(x.err) ELSE Ok(0 + x.val)
    IN IF row.FacadeArea # "" THEN float(row.FacadeArea)
       ELSE IF row.RoofArea # "" THEN plus(float(row.RoofArea))
       ELSE Ok(0)

\* The two area cells of a BECD row.
EnvelopeRows ==
    [FacadeArea : {"", "0", "1", "2", "10", "20"},
     RoofArea : {"", "0", "1", "2", "10", "20"}]

\* One row through both files: `rows` keeps the rows, `lcax_data` the value
\* each file stores.
ThermalEnvelope ==
    /\ conv = "thermal_envelope_area"
    /\ Len(rows) < MaxCalls
    /\ \E row \in EnvelopeRows :
         /\ rows' = Append(rows, row)
         /\ lcax_data' = Append(lcax_data,
                                [flat |-> flat_thermal_envelope_area(row),
                                 mapped |-> get_thermal_envelope_area(row)])
    /\ UNCHANGED <<conv, projects, pc, error, saved, MAPPING>>

InitEnvelope == InitRun({"thermal_envelope_area"})
SpecEnvelope == InitEnvelope /\ [][ThermalEnvelope]_vars

-----------------------------------------------------------------------------
(* Splitting a converted file: src/slice/split.py *)

\* chunks that yields the full chunks only: what is left over is dropped.
chunks_whole(lst, n) ==
    [c \in 1..(Len(lst) \div n) |-> SubSeq(lst, (c - 1) * n + 1, c * n)]

\* chunks(lst, n), as the list of what it yields: lst[i:i + n] for i in
\* range(0, len(lst), n); a slice ends at the end of the list.
chunks(lst, n) ==
    [c \in 1..((Len(lst) + n - 1) \div n) |->
        SubSeq(lst, (c - 1) * n + 1, IF c * n < Len(lst) THEN c * n ELSE Len(lst))]

\* A list of `len` elements, each one of its own.
ListOf(len) == [i \in 1..len |-> i]

\* A call of chunks: `rows` keeps the calls, `lcax_data` what each yields.
Chunks ==
    /\ conv = "chunks"
    /\ Len(rows) < MaxCalls
    /\ \E len \in 0..MaxLen, n \in 1..MaxChunk :
         /\ rows' = Append(rows, [lst |-> ListOf(len), n |-> n])
         /\ lcax_data' = Append(lcax_data, chunks(ListOf(len), n))
    /\ UNCHANGED <<conv, projects, pc, error, saved, MAPPING>>

\* The size of the chunks load_slice writes.
CHUNK_SIZE == 50

\* One iteration of `for chunk in chunks(data, 50)`: the chunk is written to
\* the file numbered `index`, and index += 1.  `rows` is the data read from
\* the file, `saved` the files written so far.
WriteChunk ==
    /\ conv = "split"
    /\ pc = "loop"
    /\ Len(saved) < Len(chunks(rows, CHUNK_SIZE))
    /\ saved' = Append(saved, [index |-> Len(saved),
                               chunk |-> chunks(rows, CHUNK_SIZE)[Len(saved) + 1]])
    /\ UNCHANGED <<conv, rows, projects, lcax_data, pc, error, MAPPING>>

\* chunks is exhausted: load_slice returns.
LoadSliceReturn ==
    /\ conv = "split"
    /\ pc = "loop"
    /\ Len(saved) = Len(chunks(rows, CHUNK_SIZE))
    /\ pc' = "saved"
    /\ UNCHANGED <<conv, rows, projects, lcax_data, error, saved, MAPPING>>

\* Calls of chunks, and load_slice on files of any length up to MaxData.
InitSplit ==
    /\ conv \in {"chunks", "split"}
    /\ MAPPING = BECD_MAPPING_KEYS
    /\ rows \in IF conv = "split" THEN {ListOf(len) : len \in 0..MaxData} ELSE {<<>>}
    /\ projects = EmptyDict
    /\ lcax_data = <<>>
    /\ pc = "loop"
    /\ error = ""
    /\ saved = <<>>
NextSplit == Chunks \/ WriteChunk \/ LoadSliceReturn
SpecSplit == InitSplit /\ [][NextSplit]_vars

\* The mapping tables of a BECD run: the whole table, or one key short.
BecdMappingTables ==
    {BECD_MAPPING_KEYS} \cup {BECD_MAPPING_KEYS \ {key} : key \in BECD_MAPPING_KEYS}

\* load_becd under any of these tables.
InitMapping ==
    /\ conv = "becd"
    /\ MAPPING \in BecdMappingTables
    /\ rows = <<>>
    /\ projects = EmptyDict
    /\ lcax_data = <<>>
    /\ pc = "loop"
    /\ error = ""
    /\ saved = <<>>
NextMapping == BecdRow(BecdRowsAny) \/ MergerFinish
SpecMapping == InitMapping /\ [][NextMapping]_vars

\* A loader runs to its end: the interpreter takes the next step of the loop
\* as long as there is one, and the input is finite.
SpecLoadFair == SpecLoad /\ WF_vars(NextLoad)

-----------------------------------------------------------------------------
(* What the rows read so far say about the SLiCE graph *)

\* The keys under which update_project files a row.
slice_assembly_id(row) == uuid5(row.element_class_sfb)
slice_product_id(row) == uuid5(product_content_key(row))

\* The positions of the rows filed under (project key, assembly id, product id).
RowsOf(pk, aid, pid) ==
    {i \in DOMAIN rows : /\ rows[i].building_archetype_code = pk
                         /\ slice_assembly_id(rows[i]) = aid
                         /\ slice_product_id(rows[i]) = pid}

\* Of those, the rows of life-cycle stage s.
RowsOfStage(pk, aid, pid, s) ==
    {i \in RowsOf(pk, aid, pid) : LCAxLifeCycleStage_from_str(rows[i].LCS_EN15978).val = s}

RECURSIVE SumColumn(_, _)
SumColumn(idx, column) ==
    IF idx = {} THEN 0
    ELSE LET i == CHOOSE x \in idx : TRUE
         IN rows[i][column][1] + SumColumn(idx \ {i}, column)

\* The life-cycle stages of the rows read so far.
StagesRead == {LCAxLifeCycleStage_from_str(rows[i].LCS_EN15978).val : i \in DOMAIN rows}

ColumnOf(c) == impact_sets[CHOOSE n \in DOMAIN impact_sets : impact_sets[n].key = c].column

\* C1: in a SLiCE run, every stored cell impacts[c][s] of every product is the
\* sum of the c-values of exactly the rows read so far that are filed under
\* its (project key, assembly id, product id) and stage s, and a cell is
\* stored exactly when there is such a row; the creating row counts once.
C1_SumOfContributions ==
    conv = "slice" =>
      /\ \A i \in DOMAIN rows :
           /\ Has(projects, rows[i].building_archetype_code)
           /\ LET asms == Get(projects, rows[i].building_archetype_code).assemblies IN
              /\ Has(asms, slice_assembly_id(rows[i]))
              /\ Has(Get(asms, slice_assembly_id(rows[i])).products, slice_product_id(rows[i]))
      /\ \A pi \in DOMAIN projects :
           LET pk == projects[pi].k
               asms == projects[pi].v.assemblies
           IN \A ai \in DOMAIN asms :
                LET prods == asms[ai].v.products IN
                \A qi \in DOMAIN prods :
                  LET impacts == prods[qi].v.impact_data.impacts IN
                  \A ci \in DOMAIN impacts :
                    LET c == impacts[ci].k
                        cells == impacts[ci].v
                    IN \A s \in Keys(cells) \cup StagesRead :
                         LET idx == RowsOfStage(pk, asms[ai].k, prods[qi].k, s) IN
                         /\ Has(cells, s) <=> idx # {}
                         /\ Has(cells, s) => Get(cells, s) = SumColumn(idx, ColumnOf(c))

\* Two rows with values 1 then 2 for one cell have been merged into it.
C1_Witness ==
    /\ conv = "slice"
    /\ Len(rows) >= 2
    /\ rows[1].ind_GWP_Tot = Some(1)
    /\ rows[2] = [rows[1] EXCEPT !.ind_GWP_Tot = Some(2)]
    /\ Len(projects) = 1
    /\ Get(Get(Get(Get(projects[1].v.assemblies, slice_assembly_id(rows[1])).products,
                   slice_product_id(rows[1])).impact_data.impacts, "gwp"), "a1a3") = 3

\* C2 (as claimed): in a BECD run of two rows, both with EmissionsIncluded
\* other than "No", the same EntityCode and the same element, the element's
\* product holds for stage a1a3 the sum of the two rows' A1ToA3 values.
C2_BecdRepeatRowAdds ==
    ( /\ conv = "becd"
      /\ Len(rows) = 2
      /\ rows[1].EntityCode = rows[2].EntityCode
      /\ rows[1].EntityElementName = rows[2].EntityElementName
      /\ rows[1].EmissionsIncluded # "No"
      /\ rows[2].EmissionsIncluded # "No" )
    => LET asm == Get(projects[1].v.assemblies, uuid5(rows[1].EntityElementName))
           product == Get(asm.products, uuid5(rows[1].EntityElementName))
       IN Get(Get(product.impact_data.impacts, "gwp"), "a1a3")
            = float(rows[1].A1ToA3).val + float(rows[2].A1ToA3).val

\* C3: in a SLiCE run, two rows of one project and one element class whose
\* product identifiers differ leave one assembly under that class, holding
\* one product per identifier seen for it; when the two rows are the whole
\* input the assembly has exactly two products, each holding its own row's
\* values and nothing else.
C3_OneAssemblyTwoProducts ==
    conv = "slice" =>
      \A i, j \in DOMAIN rows :
        ( /\ i < j
          /\ rows[i].building_archetype_code = rows[j].building_archetype_code
          /\ rows[i].element_class_sfb = rows[j].element_class_sfb
          /\ slice_product_id(rows[i]) # slice_product_id(rows[j]) )
        => LET pk == rows[i].building_archetype_code
               aid == slice_assembly_id(rows[i])
               asms == Get(projects, pk).assemblies
               prods == Get(asms, aid).products
               own(r) == [n \in DOMAIN impact_sets |->
                            [k |-> impact_sets[n].key,
                             v |-> <<[k |-> LCAxLifeCycleStage_from_str(r.LCS_EN15978).val,
                                      v |-> r[impact_sets[n].column][1]]>>]]
           IN /\ Cardinality({n \in DOMAIN asms : asms[n].k = aid}) = 1
              /\ Len(prods) = Cardinality({slice_product_id(rows[n]) :
                                              n \in {m \in DOMAIN rows :
                                                       /\ rows[m].building_archetype_code = pk
                                                       /\ slice_assembly_id(rows[m]) = aid}})
              /\ Cardinality(Keys(prods)) = Len(prods)
              /\ Len(rows) = 2 =>
                   /\ KeyList(prods) = <<slice_product_id(rows[i]), slice_product_id(rows[j])>>
                   /\ prods[1].v.impact_data.impacts = own(rows[i])
                   /\ prods[2].v.impact_data.impacts = own(rows[j])

\* Two rows of one project and element class with different product
\* identifiers have been read.
C3_Witness ==
    /\ conv = "slice"
    /\ Len(rows) = 2
    /\ rows[1].building_archetype_code = rows[2].building_archetype_code
    /\ rows[1].element_class_sfb = rows[2].element_class_sfb
    /\ rows[1].techflow_name_mmg = "flow-1"
    /\ rows[2].techflow_name_mmg = "flow-2"
    /\ rows[1].worksection_class_sfb = ""
    /\ rows[2].worksection_class_sfb = ""
    /\ Len(projects) = 1
    /\ Len(projects[1].v.assemblies) = 1
    /\ Len(projects[1].v.assemblies[1].v.products) = 2

\* C4 (as claimed): in a SLiCE run, two rows of one project and element class
\* with the same non-empty work-section code and different flow names are
\* filed under different product identifiers, so the assembly holds a product
\* for each.
C4_WorksectionAndFlowKey ==
    conv = "slice" =>
      \A i, j \in DOMAIN rows :
        ( /\ i < j
          /\ rows[i].building_archetype_code = rows[j].building_archetype_code
          /\ rows[i].element_class_sfb = rows[j].element_class_sfb
          /\ rows[i].worksection_class_sfb # ""
          /\ rows[i].worksection_class_sfb = rows[j].worksection_class_sfb
          /\ rows[i].techflow_name_mmg # rows[j].techflow_name_mmg )
        => LET prods == Get(Get(projects, rows[i].building_archetype_code).assemblies,
                            slice_assembly_id(rows[i])).products
           IN /\ slice_product_id(rows[i]) # slice_product_id(rows[j])
              /\ Len(prods) >= 2

-----------------------------------------------------------------------------
(* Rejected rows *)

\* The row the step from this state to the next has read.
RowRead == rows'[Len(rows')]

\* The key under which a merger files a row.
ProjectKey(row) ==
    IF conv \in SliceConverters THEN row.building_archetype_code ELSE row.EntityCode

\* A row of a merger one of whose categorical values is in no synonym list.
UnknownCategory(row) ==
    IF conv = "slice"
    THEN \/ slice_get_building_type(row).err # ""
         \/ slice_get_building_typology(row).err # ""
         \/ slice_get_general_energy_class(row).err # ""
    ELSE IF conv = "slice_flat"
    THEN \/ slice_get_building_type(row).err # ""
         \/ slice_get_building_typology(row).err # ""
         \/ flat_slice_get_general_energy_class(row.building_energy_performance_name).err # ""
    ELSE becd_get_building_type(row).err # ""

\* C5 (as claimed): in a SLiCE or BECD run, every step that reads a row with
\* an unknown building type, typology or energy class raises and leaves the
\* projects map as it was.
C5_UnknownCategoryRejected ==
    [][ ( /\ conv \in Mergers
          /\ rows' # rows
          /\ UnknownCategory(RowRead) )
        => /\ pc' = "raised"
           /\ error' # ""
           /\ projects' = projects ]_vars

\* C5 (amended): in a SLiCE or BECD run, every step that reads a row whose
\* project key is not in the projects map and that has an unknown building
\* type, typology or energy class raises and leaves the projects map as it
\* was.
C5_UnknownCategoryRejectedOnCreate ==
    [][ ( /\ conv \in Mergers
          /\ rows' # rows
          /\ ~Has(projects, ProjectKey(RowRead))
          /\ UnknownCategory(RowRead) )
        => /\ pc' = "raised"
           /\ error' # ""
           /\ projects' = projects ]_vars

\* A SLiCE run has one project and its second row, of another archetype and
\* of an unknown activity type, was rejected.
C5_Witness ==
    /\ conv = "slice"
    /\ Len(rows) = 2
    /\ rows[1].building_archetype_code # rows[2].building_archetype_code
    /\ slice_get_building_type(rows[2]).err # ""
    /\ pc = "raised"
    /\ error = "NotImplementedError: Unknown building type"
    /\ Len(projects) = 1
    /\ projects[1].k = rows[1].building_archetype_code

-----------------------------------------------------------------------------
(* The pass over the input *)

\* The projects map of a merger after rows 1..n read in order, each once, with
\* the exception that ends the pass.
RECURSIVE Merged(_)
Merged(n) ==
    IF n = 0 THEN Ok(EmptyDict)
    ELSE LET next(prev) ==
                 IF prev.err # "" THEN prev
                 ELSE IF conv = "slice" THEN slice_process_row(prev.val, rows[n])
                 ELSE IF conv = "slice_flat" THEN flat_slice_process_row(prev.val, rows[n])
                 ELSE becd_process_row(prev.val, rows[n])
         IN next(Merged(n - 1))

\* Record i of a row converter is the conversion of row i.
ConvertedFrom(i) ==
    IF conv = "carbenmats" THEN lcax_data[i] = carb_convert_row(rows[i]).val
    ELSE IF conv = "carbenmats_flat" THEN lcax_data[i] = flat_carb_convert_row(rows[i]).val
    ELSE IF conv = "structural_panda_mapped"
    THEN lcax_data[i] = mapped_panda_convert_row(rows[i]).val
    ELSE \E u \in Uuid4Values : lcax_data[i] = panda_convert_row(rows[i], u).val

\* The projects map of a merger once the input has ended: SLiCE's projects
\* are the calculated ones.
Finished(projs) == IF conv \in SliceConverters THEN calculate_projects(projs) ELSE projs

\* The number of rows that were processed without an exception.
RowsDone == IF error = "" THEN Len(rows) ELSE Len(rows) - 1

C6_State ==
    /\ pc \in {"loop", "raised", "saved"}
    /\ (pc = "raised") <=> (error # "")
    /\ pc = "raised" => rows # <<>>
    /\ pc # "saved" => saved = <<>>
    /\ conv \in Mergers =>
         /\ Merged(RowsDone).err = ""
         /\ pc # "saved" => projects = Merged(Len(rows)).val
         /\ error = Merged(Len(rows)).err
         /\ pc = "saved" =>
              /\ projects = Finished(Merged(Len(rows)).val)
              /\ saved = <<Values(projects)>>
    /\ conv \in RowConverters =>
         /\ Len(lcax_data) = RowsDone
         /\ \A i \in DOMAIN lcax_data : ConvertedFrom(i)
         /\ pc = "saved" => saved = <<lcax_data>>

\* C6: in every loader, a row that raises ends the run: no row is read after
\* it and nothing is saved; while no row has raised, the state is that of
\* reading each row once in input order, and the run ends by saving that
\* output once, after which nothing is read or saved again.  Every run ends,
\* by an exception or by the save.
C6_AbortOnFirstBadRow ==
    /\ []C6_State
    /\ [][pc = "loop" /\ pc' \in {"loop", "raised", "saved"}]_vars
    /\ <>(pc \in {"raised", "saved"})

\* A run whose second row raised: two rows read, nothing saved.
C6_Witness ==
    /\ pc = "raised"
    /\ Len(rows) = 2
    /\ saved = <<>>
    /\ (conv \in Mergers => Len(projects) = 1)
    /\ (conv \in RowConverters => Len(lcax_data) = 1)

-----------------------------------------------------------------------------
(* Identifiers, countries and absent values *)

\* C7 (as claimed): in every row converter, two equal rows give equal output
\* records, identifiers included.
C7_DeterministicIdentity ==
    conv \in RowConverters =>
      \A i, j \in DOMAIN lcax_data : rows[i] = rows[j] => lcax_data[i] = lcax_data[j]

\* The raw country value of a BECD or CarbEnMats row, as get_country gets it.
RawCountry(row) ==
    IF conv = "becd" THEN Some(row.Country)
    ELSE IF conv = "carbenmats_flat" THEN Some(row.site_country_iso2)
    ELSE get_value_or_none(row, "site_country_iso2")

\* The raw values that name a country.
Recognised(data) == ~IsNone(data) /\ countries_get(data).err = ""

\* C8 (as claimed): in a BECD or CarbEnMats run no row is rejected by the
\* country lookup, and the country of every output record is a Country
\* variant, Country.unknown when the raw value of its row names no country.
C8_CountryNeverFails ==
    /\ conv \in {"becd", "carbenmats", "carbenmats_flat"} =>
         error \notin {"KeyError", "AttributeError"}
    /\ conv \in {"carbenmats", "carbenmats_flat"} =>
         \A i \in DOMAIN lcax_data :
           /\ ~IsNone(lcax_data[i].location.country)
           /\ ~Recognised(RawCountry(rows[i])) =>
                lcax_data[i].location.country = Some("unknown")
    /\ conv = "becd" =>
         \A n \in DOMAIN projects :
           /\ ~IsNone(projects[n].v.location.country)
           /\ \A i \in DOMAIN rows :
                ( /\ rows[i].EntityCode = projects[n].k
                  /\ \A j \in 1..(i - 1) : rows[j].EntityCode # projects[n].k
                  /\ ~Recognised(RawCountry(rows[i])) )
                => projects[n].v.location.country = Some("unknown")

\* The regions get_location knows.
SLICE_REGIONS == {"continental", "mediterranean", "nordic", "oceanic"}

\* C9 (as claimed): in a SLiCE run, a project created by a row whose region
\* is none of the four has the unknown country.
C9_NoSilentDefaultLocation ==
    conv \in SliceConverters =>
      \A n \in DOMAIN projects : \A i \in DOMAIN rows :
        ( /\ rows[i].building_archetype_code = projects[n].k
          /\ \A j \in 1..(i - 1) : rows[j].building_archetype_code # projects[n].k
          /\ lower(rows[i].stock_region_name) \notin SLICE_REGIONS )
        => projects[n].v.location.country = "unknown"

\* C10 (as claimed): in a SLiCE run, a step that reads a row with a None
\* value for a category, and that no normaliser and no stage lookup rejects,
\* does not raise.
C10_AbsentIsNoOp ==
    [][ ( /\ conv \in SliceConverters
          /\ rows' # rows
          /\ \E n \in DOMAIN impact_sets : IsNone(RowRead[impact_sets[n].column])
          /\ (~Has(projects, ProjectKey(RowRead)) => ~UnknownCategory(RowRead))
          /\ LCAxLifeCycleStage_from_str(RowRead.LCS_EN15978).err = "" )
        => /\ error' = ""
           /\ pc' = "loop" ]_vars

-----------------------------------------------------------------------------
(* Absent cells and numbers of CarbEnMats *)

\* A cell that stands for no value: empty, or the placeholder in any case.
Placeholder(cell) == cell = "" \/ lower(cell) = "no data"

\* C11 (as claimed): in a CarbEnMats run, a row whose results cells are each a
\* number, empty or the placeholder is not rejected by the number parse, and
\* the results of its record have no stage for an empty or placeholder cell.
C11_PlaceholderIsAbsent ==
    conv \in {"carbenmats", "carbenmats_flat"} =>
      /\ ( /\ rows # <<>>
           /\ \A n \in DOMAIN CARB_RESULTS :
                LET cell == rows[Len(rows)][CARB_RESULTS[n].column]
                IN Placeholder(cell) \/ cell \in DOMAIN FloatTable )
         => error # "ValueError"
      /\ \A i \in DOMAIN lcax_data : \A n \in DOMAIN CARB_RESULTS :
           ( /\ Placeholder(rows[i][CARB_RESULTS[n].column])
             /\ ~IsNone(lcax_data[i].results) )
           => ~Has(Get(lcax_data[i].results[1], "gwp"), CARB_RESULTS[n].stage)

\* The number 0 or the empty text.
ZeroOrEmpty(x) == (x.type = "int" /\ x.val = 0) \/ (x.type = "str" /\ x.val = "")

\* C12 (as claimed): in a CarbEnMats run, the city of a record is None exactly
\* when its cell is empty or the placeholder and is the cell otherwise, and
\* the gross floor area of a record is neither the number 0 nor the empty
\* text because its cell was empty or the placeholder.
C12_AbsentNeverZero ==
    conv = "carbenmats" =>
      \A i \in DOMAIN lcax_data :
        /\ lcax_data[i].location.city =
             (IF Placeholder(rows[i].site_region_local) THEN None
              ELSE Some(rows[i].site_region_local))
        /\ Placeholder(rows[i].bldg_area_gfa) =>
             ~ZeroOrEmpty(lcax_data[i].gross_floor_area.value)
        /\ Placeholder(rows[i].bldg_area_definition) =>
             ~ZeroOrEmpty(lcax_data[i].gross_floor_area.definition)

-----------------------------------------------------------------------------
(* The mapping table of BECD *)

\* C13 (as claimed): in a BECD run whose mapping table lacks a key, no row is
\* merged into the projects map: the map stays empty and the first row read
\* ends the run.
C13_MissingKeyFailsAtStartup ==
    (conv = "becd" /\ MAPPING # BECD_MAPPING_KEYS) =>
      /\ projects = EmptyDict
      /\ Len(rows) <= 1
      /\ rows # <<>> => pc = "raised"

-----------------------------------------------------------------------------
(* Excluded rows and project totals of BECD *)

\* C14: in a BECD run, a step that reads a row flagged EmissionsIncluded = "No"
\* leaves every project that exists as it is, and so every assembly and
\* product; when the row's key is in the map the row does not raise and the
\* map is unchanged; when the key is new and the row is accepted, the map
\* gains one entry, last, for that key, with an empty assemblies map; when
\* the key is new and the row is rejected (its totals or its project type),
\* the map is unchanged.
C14_ExcludedRowBuildsNothing ==
    [][ ( /\ conv = "becd"
          /\ rows' # rows
          /\ RowRead.EmissionsIncluded = "No" )
        => /\ SubSeq(projects', 1, Len(projects)) = projects
           /\ Has(projects, RowRead.EntityCode) => (error' = "" /\ projects' = projects)
           /\ (~Has(projects, RowRead.EntityCode) /\ error' # "") => projects' = projects
           /\ (~Has(projects, RowRead.EntityCode) /\ error' = "") =>
                /\ Len(projects') = Len(projects) + 1
                /\ projects'[Len(projects')].k = RowRead.EntityCode
                /\ projects'[Len(projects')].v.assemblies = EmptyDict ]_vars

\* An excluded row has registered a project with no assembly, and a second
\* excluded row of the same project has been read after it.
C14_Witness ==
    /\ conv = "becd"
    /\ Len(rows) = 2
    /\ rows[1].EmissionsIncluded = "No"
    /\ rows[2].EmissionsIncluded = "No"
    /\ rows[1].EntityCode = rows[2].EntityCode
    /\ error = ""
    /\ Len(projects) = 1
    /\ projects[1].v.assemblies = EmptyDict

\* The position of the first row read that carries project key pk.
FirstRowOf(pk) ==
    CHOOSE i \in DOMAIN rows :
      /\ rows[i].EntityCode = pk
      /\ \A j \in 1..(i - 1) : rows[j].EntityCode # pk

\* C15: in a BECD run, the results of every project are the totals of the
\* first row read for its key, whatever the rows read for it afterwards.
C15_TotalsFromFirstRow ==
    conv = "becd" =>
      \A n \in DOMAIN projects :
        projects[n].v.results = get_project_results(rows[FirstRowOf(projects[n].k)]).val

\* Two rows of one project with different totals have been read.
C15_Witness ==
    /\ conv = "becd"
    /\ Len(rows) = 2
    /\ rows[1].EntityCode = rows[2].EntityCode
    /\ rows[1].Total_A1ToA3 = "10"
    /\ rows[2].Total_A1ToA3 = "20"
    /\ rows[2].EmissionsIncluded = "Yes"
    /\ error = ""
    /\ Len(projects) = 1
    /\ Get(Get(projects[1].v.results, "gwp"), "a1a3") = 10

-----------------------------------------------------------------------------
(* The order of the output of the mergers *)

\* The elements of a sequence in the order of their first occurrence.
RECURSIVE FirstSeen(_)
FirstSeen(seq) ==
    IF seq = <<>> THEN <<>>
    ELSE LET front == FirstSeen(SubSeq(seq, 1, Len(seq) - 1))
             last == seq[Len(seq)]
         IN IF \E i \in DOMAIN front : front[i] = last THEN front ELSE Append(front, last)

\* The identifier of the assembly a merger files a row under, and of the
\* product inside it.
AssemblyIdOf(row) ==
    IF conv \in SliceConverters THEN slice_assembly_id(row) ELSE uuid5(row.EntityElementName)
ProductIdOf(row) ==
    IF conv \in SliceConverters THEN slice_product_id(row) ELSE uuid5(row.EntityElementName)

\* The rows that build an assembly: every SLiCE row, the BECD rows that are
\* not excluded.
Builds(row) == conv \in SliceConverters \/ row.EmissionsIncluded # "No"

\* The rows read of project pk that build an assembly, in input order; of
\* those, the rows of assembly aid.
RowsOfProject(pk) == SelectSeq(rows, LAMBDA r : ProjectKey(r) = pk /\ Builds(r))
RowsOfAssembly(pk, aid) == SelectSeq(RowsOfProject(pk), LAMBDA r : AssemblyIdOf(r) = aid)

\* C16: in a SLiCE or BECD run on rows that are all accepted, the projects map
\* holds one entry per project key read, in the order of the first row of
\* each key; the assemblies of each project are in the order in which their
\* identifiers were first read for that project, and so are the products of
\* each assembly, however the rows of the projects are interleaved; and the
\* list handed to save_data is the projects in that order.
C16_FirstSeenOrder ==
    (conv \in {"slice", "becd"} /\ error = "") =>
      /\ KeyList(projects) = FirstSeen([i \in DOMAIN rows |-> ProjectKey(rows[i])])
      /\ \A n \in DOMAIN projects :
           LET pk == projects[n].k
               asms == projects[n].v.assemblies
               mine == RowsOfProject(pk)
           IN /\ KeyList(asms) = FirstSeen([i \in DOMAIN mine |-> AssemblyIdOf(mine[i])])
              /\ \A a \in DOMAIN asms :
                   LET its == RowsOfAssembly(pk, asms[a].k)
                   IN KeyList(asms[a].v.products)
                        = FirstSeen([i \in DOMAIN its |-> ProductIdOf(its[i])])
      /\ pc = "saved" =>
           /\ saved = <<Values(projects)>>
           /\ Len(saved[1]) = Cardinality({ProjectKey(rows[i]) : i \in DOMAIN rows})

\* Rows of two projects were read interleaved, the third one adding a second
\* assembly to the first project, and the output was saved.
C16_Witness ==
    /\ pc = "saved"
    /\ Len(rows) = 3
    /\ ProjectKey(rows[1]) = ProjectKey(rows[3])
    /\ ProjectKey(rows[1]) # ProjectKey(rows[2])
    /\ AssemblyIdOf(rows[1]) # AssemblyIdOf(rows[3])
    /\ Builds(rows[1])
    /\ Builds(rows[3])
    /\ Len(saved[1]) = 2
    /\ KeyList(saved[1][1].assemblies) = <<AssemblyIdOf(rows[1]), AssemblyIdOf(rows[3])>>

-----------------------------------------------------------------------------
(* Classification *)

\* The variants of the entries of a table whose list holds the lower-cased
\* value, in table order.
RECURSIVE Matching(_, _, _)
Matching(table, data, i) ==
    IF i > Len(table) THEN <<>>
    ELSE (IF lower(data) \in table[i].synonyms THEN <<table[i].variant>> ELSE <<>>)
           \o Matching(table, data, i + 1)

\* C17 (as claimed): every call of get_building_typology, in structural_panda,
\* slice and carbenmats, returns the variants of all the entries that match,
\* one each and in table order, and raises exactly when none matches.
C17_ManyValuedTypology ==
    conv = "normalise" =>
      \A i \in DOMAIN rows :
        rows[i].family = "building typology" =>
          LET all == Matching(rows[i].table, rows[i].data, 1)
          IN IF all = <<>> THEN lcax_data[i].err # ""
             ELSE lcax_data[i] = Ok(all)

\* C18: every call of a single-valued normaliser returns the variant of an
\* entry whose list holds the lower-cased value and before which no entry's
\* list holds it (an empty list holds nothing), and raises, returning no
\* variant, exactly when no entry's list holds the value.
C18_FirstMatchWins ==
    conv = "normalise" =>
      \A i \in DOMAIN rows :
        rows[i].family # "building typology" =>
          LET table == rows[i].table
              holds(n) == lower(rows[i].data) \in table[n].synonyms
          IN IF \E n \in DOMAIN table : holds(n)
             THEN /\ lcax_data[i].err = ""
                  /\ \E n \in DOMAIN table :
                       /\ holds(n)
                       /\ \A m \in 1..(n - 1) : ~holds(m)
                       /\ lcax_data[i].val = table[n].variant
             ELSE /\ lcax_data[i].err = "NotImplementedError: Unknown " \o rows[i].family
                  /\ lcax_data[i].val = <<>>

\* A roof type was looked up in a table two of whose lists hold the value, and
\* the first entry's variant came back; a second call matched nothing.
C18_Witness ==
    /\ conv = "normalise"
    /\ Len(rows) = 2
    /\ rows[1].family = "roof type"
    /\ rows[1].data = "ALPHA"
    /\ rows[1].table = TableOf("roof type", <<{"alpha"}, {"alpha", "beta"}>>)
    /\ lcax_data[1] = Ok("flat")
    /\ rows[2].data = "Zoo"
    /\ rows[2].family = "building type"
    /\ lcax_data[2].err = "NotImplementedError: Unknown building type"

\* C19 (as claimed): two raw values that differ only in the case of their
\* letters have the same outcome: of two rows of a run that differ only in the
\* case of the building type, either both are converted or neither is.
C19_CaseNeverDecides ==
    conv \in {"structural_panda", "structural_panda_mapped"} =>
      \A i, j \in DOMAIN rows :
        (/\ lower(rows[i].Type) = lower(rows[j].Type)
         /\ rows[j] = [rows[i] EXCEPT !.Type = rows[j].Type]
         /\ i <= Len(lcax_data))
          => ~(pc = "raised" /\ j = Len(rows))

\* C20 (as claimed): a malformed number ends the run: once a CarbEnMats row
\* whose year cell holds text that is not a number has been read, no record
\* has been built from it.
C20_MalformedYearIsFatal ==
    conv = "carbenmats" =>
      \A i \in DOMAIN rows :
        (rows[i].meta_year # "" /\ ~Placeholder(rows[i].meta_year)
           /\ rows[i].meta_year \notin DOMAIN IntTable)
          => Len(lcax_data) < i

-----------------------------------------------------------------------------
(* Projects side by side *)

\* C21 (as claimed): once a row of another project has been processed after a
\* project's own rows began, no later row changes that project, whatever the
\* order of the rows.
C21_NoRevisitAfterSwitch ==
    [][Len(rows') = Len(rows) + 1 =>
         \A pk \in Keys(projects) :
           (\E i \in DOMAIN rows :
               /\ ProjectKey(rows[i]) # pk
               /\ \E h \in 1..(i - 1) : ProjectKey(rows[h]) = pk)
             => Get(projects', pk) = Get(projects, pk)]_vars

\* The projects dict after the rows of seq, from i on, are merged into projs.
RECURSIVE MergeRows(_, _, _)
MergeRows(projs, seq, i) ==
    IF i > Len(seq) THEN projs
    ELSE MergeRows(IF conv = "slice" THEN slice_process_row(projs, seq[i]).val
                   ELSE IF conv = "slice_flat"
                   THEN flat_slice_process_row(projs, seq[i]).val
                   ELSE becd_process_row_mapped(MAPPING, projs, seq[i]).val,
                   seq, i + 1)

\* The rows of one project key, in input order.
RowsWithKey(pk) == SelectSeq(rows, LAMBDA r : ProjectKey(r) = pk)

\* The projects dict projs as the run holds it at this point: as merged
\* while rows are read, as finished once the output is saved.
AtThisPoint(projs) == IF pc = "saved" THEN Finished(projs) ELSE projs

\* C22: a row changes no project but the one under its own key, and every
\* project is what its own rows alone merge into (and, at the end of a SLiCE
\* run, what calculate_project makes of that): nothing of it is held in
\* common with another project, not even an assembly or a product whose
\* identifier the two projects share.
C22_ProjectsAreIsolated ==
    /\ [](\A pk \in Keys(projects) :
            Get(projects, pk)
              = Get(AtThisPoint(MergeRows(EmptyDict, RowsWithKey(pk), 1)), pk))
    /\ [][Len(rows') = Len(rows) + 1 =>
            \A pk \in Keys(projects) :
              pk # ProjectKey(RowRead) =>
                Has(projects', pk) /\ Get(projects', pk) = Get(projects, pk)]_vars

\* Two projects hold an assembly under the same identifier, and the two
\* assemblies differ: a row went to the one after the other had been built.
C22_Witness ==
    /\ conv = "slice"
    /\ Len(rows) = 3
    /\ Len(projects) = 2
    /\ \E aid \in Keys(projects[1].v.assemblies) :
         /\ Has(projects[2].v.assemblies, aid)
         /\ Get(projects[1].v.assemblies, aid) # Get(projects[2].v.assemblies, aid)
         /\ Keys(Get(projects[1].v.assemblies, aid).products)
              \cap Keys(Get(projects[2].v.assemblies, aid).products) # {}

\* The assemblies of the project under pk in the dict projs.
AssembliesIn(projs, pk) == Get(projs, pk).assemblies

\* C23: in SLiCE and in BECD, at every step of the merge every project key
\* stays, every assembly of every project stays under its identifier with its
\* id and name, and every product of every assembly stays under its
\* identifier: the three sets of identifiers only grow.
C23_EntitiesAreNeverRemoved ==
    [][\A pk \in Keys(projects) :
         /\ Has(projects', pk)
         /\ \A aid \in Keys(AssembliesIn(projects, pk)) :
              /\ Has(AssembliesIn(projects', pk), aid)
              /\ Get(AssembliesIn(projects', pk), aid).id = Get(AssembliesIn(projects, pk), aid).id
              /\ Get(AssembliesIn(projects', pk), aid).name = Get(AssembliesIn(projects, pk), aid).name
              /\ Keys(Get(AssembliesIn(projects, pk), aid).products)
                   \subseteq Keys(Get(AssembliesIn(projects', pk), aid).products)]_vars

\* A BECD project holds two assemblies after three of its rows, the third of
\* which named the element of the first again.
C23_Witness ==
    /\ conv = "becd"
    /\ Len(rows) = 3
    /\ \A i \in 1..3 : rows[i].EntityCode = rows[1].EntityCode /\ rows[i].EmissionsIncluded = "Yes"
    /\ rows[3].EntityElementName = rows[1].EntityElementName
    /\ rows[2].EntityElementName # rows[1].EntityElementName
    /\ Len(projects) = 1
    /\ Len(projects[1].v.assemblies) = 2
    /\ \A i \in 1..2 : Len(projects[1].v.assemblies[i].v.products) = 1

-----------------------------------------------------------------------------
(* Repeated rows of one SLiCE product *)

\* C24: a SLiCE row whose product identifier is already in its assembly
\* changes nothing but the impacts of that product's technical flow: the
\* product, its technical flow and the assembly keep every other field as the
\* creating row set it, and the project keeps every other field too.
C24_FirstRowWinsForIdentity ==
    [][(conv = "slice" /\ Len(rows') = Len(rows) + 1
          /\ Has(projects, ProjectKey(RowRead))
          /\ Has(AssembliesIn(projects, ProjectKey(RowRead)), slice_assembly_id(RowRead))
          /\ Has(Get(AssembliesIn(projects, ProjectKey(RowRead)), slice_assembly_id(RowRead)).products,
                 slice_product_id(RowRead)))
       => LET pk == ProjectKey(RowRead)
              aid == slice_assembly_id(RowRead)
              pid == slice_product_id(RowRead)
              assembly == Get(AssembliesIn(projects, pk), aid)
              assembly_after == Get(AssembliesIn(projects', pk), aid)
              product == Get(assembly.products, pid)
              product_after == Get(assembly_after.products, pid)
          IN /\ product_after =
                  [product EXCEPT !.impact_data.impacts = product_after.impact_data.impacts]
             /\ assembly_after = [assembly EXCEPT !.products = Put(@, pid, product_after)]
             /\ Get(projects', pk) =
                  [Get(projects, pk) EXCEPT !.assemblies = Put(@, aid, assembly_after)]]_vars

\* Two rows of one product that differ in the element name, the flow name and
\* the value were merged: the names are those of the first row and the cell
\* holds both values.
C24_Witness ==
    /\ conv = "slice"
    /\ Len(rows) = 2
    /\ pc = "loop"
    /\ rows[1].element_class_generic_name # rows[2].element_class_generic_name
    /\ rows[1].techflow_name_mmg # rows[2].techflow_name_mmg
    /\ rows[1].LCS_EN15978 = rows[2].LCS_EN15978
    /\ Len(projects) = 1
    /\ Len(projects[1].v.assemblies) = 1
    /\ projects[1].v.assemblies[1].v.name = rows[1].element_class_generic_name
    /\ Len(projects[1].v.assemblies[1].v.products) = 1
    /\ projects[1].v.assemblies[1].v.products[1].v.impact_data.name = rows[1].techflow_name_mmg
    /\ Get(projects[1].v.assemblies[1].v.products[1].v.impact_data.impacts, "gwp")[1].v
         = rows[1].ind_GWP_Tot[1] + rows[2].ind_GWP_Tot[1]

\* The rows in the order f gives them: row f[1] first.
Permuted(f) == [i \in DOMAIN rows |-> rows[f[i]]]
RowOrders(n) == {f \in [1..n -> 1..n] : \A i, j \in 1..n : f[i] = f[j] => i = j}

\* Every cell of every technical-flow aggregate of the projects dict:
\* (project key, assembly, product, category, stage, value).
Cells(projs) ==
    UNION { UNION { UNION { UNION {
        { <<projs[p].k, projs[p].v.assemblies[a].k,
            projs[p].v.assemblies[a].v.products[q].k,
            projs[p].v.assemblies[a].v.products[q].v.impact_data.impacts[c].k,
            projs[p].v.assemblies[a].v.products[q].v.impact_data.impacts[c].v[s].k,
            projs[p].v.assemblies[a].v.products[q].v.impact_data.impacts[c].v[s].v>> :
          s \in DOMAIN projs[p].v.assemblies[a].v.products[q].v.impact_data.impacts[c].v } :
        c \in DOMAIN projs[p].v.assemblies[a].v.products[q].v.impact_data.impacts } :
        q \in DOMAIN projs[p].v.assemblies[a].v.products } :
        a \in DOMAIN projs[p].v.assemblies } :
        p \in DOMAIN projs }

\* C25: the rows of one SLiCE product, merged in any other order, give the
\* same value in every (category, stage) cell of the product's aggregate and
\* the same keys.
C25_OrderIndependentAggregate ==
    conv = "slice" =>
      \A f \in RowOrders(Len(rows)) :
        Cells(MergeRows(EmptyDict, Permuted(f), 1)) = Cells(projects)

\* Three rows of one product and one stage, with different values, were
\* merged, and the cell holds their sum.
C25_Witness ==
    /\ conv = "slice"
    /\ Len(rows) = 3
    /\ rows[1].ind_GWP_Tot # rows[2].ind_GWP_Tot
    /\ \A i \in 1..3 : rows[i].LCS_EN15978 = "B6"
    /\ pc = "saved"
    /\ Cardinality(Cells(projects)) = 2
    /\ \E cell \in Cells(projects) :
         /\ cell[4] = "gwp"
         /\ cell[5] = "b6"
         /\ cell[6] = rows[1].ind_GWP_Tot[1] + rows[2].ind_GWP_Tot[1] + rows[3].ind_GWP_Tot[1]

-----------------------------------------------------------------------------
(* BECD's thermal envelope area *)

\* The number in an area cell, an empty cell counting as zero.
AreaOf(cell) == IF cell = "" THEN 0 ELSE FloatTable[cell]

\* C26 (as claimed): for every combination of empty and non-empty facade and
\* roof cells, the flat and the mapping-driven converter both store
\* facade + roof, an empty cell counting as zero.
C26_ThermalEnvelopeIsSum ==
    conv = "thermal_envelope_area" =>
      \A i \in DOMAIN rows :
        /\ lcax_data[i].mapped = Ok(AreaOf(rows[i].FacadeArea) + AreaOf(rows[i].RoofArea))
        /\ lcax_data[i].flat = lcax_data[i].mapped

-----------------------------------------------------------------------------
(* Splitting *)

\* The lists of seqs, one after the other.
RECURSIVE Flatten(_)
Flatten(seqs) == IF seqs = <<>> THEN <<>> ELSE Head(seqs) \o Flatten(Tail(seqs))

\* The least m with m * n >= len.
CeilDiv(len, n) == CHOOSE m \in 0..len : m * n >= len /\ (m = 0 \/ (m - 1) * n < len)

\* C27: what chunks(lst, n) yields, put together in order, is lst; every
\* chunk but the last has n elements, the last has 1..n, and an empty list
\* yields nothing.  When load_slice returns it has written ceil(len / 50)
\* files, numbered from 0 without a gap, that hold the data in order.
C27_ChunksPartition ==
    /\ conv = "chunks" =>
         \A i \in DOMAIN rows :
           /\ Flatten(lcax_data[i]) = rows[i].lst
           /\ \A c \in 1..(Len(lcax_data[i]) - 1) : Len(lcax_data[i][c]) = rows[i].n
           /\ lcax_data[i] # <<>> =>
                Len(lcax_data[i][Len(lcax_data[i])]) \in 1..rows[i].n
           /\ rows[i].lst = <<>> => lcax_data[i] = <<>>
    /\ (conv = "split" /\ pc = "saved") =>
         /\ Len(saved) = CeilDiv(Len(rows), 50)
         /\ \A k \in DOMAIN saved : saved[k].index = k - 1
         /\ Flatten([k \in DOMAIN saved |-> saved[k].chunk]) = rows

\* load_slice returned after it wrote three files for 101 elements: two of
\* fifty and one of one.
C27_Witness ==
    /\ conv = "split"
    /\ pc = "saved"
    /\ Len(rows) = 101
    /\ Len(saved) = 3
    /\ Len(saved[1].chunk) = 50
    /\ Len(saved[3].chunk) = 1
    /\ saved[3].index = 2

-----------------------------------------------------------------------------
(* SLiCE: a row that is rejected, and the stages a project declares *)

\* C28 (as claimed): a SLiCE row whose stage name from_str does not know
\* raises and leaves the projects dict as it was before the row.
C28_StageErrorIsAtomic ==
    [][(conv \in SliceConverters
          /\ error' = "NotImplementedError: Unknown life cycle stage")
         => projects' = projects]_vars

\* The elements of a list.
Range(seq) == {seq[i] : i \in DOMAIN seq}

\* C29 (as claimed): every stage keyed in a technical-flow aggregate of a
\* SLiCE project is in the project's life_cycle_stages, and every category
\* keyed there is in its impact_categories.
C29_DeclaredStagesCoverData ==
    conv = "slice" =>
      \A cell \in Cells(projects) :
        /\ cell[5] \in Range(Get(projects, cell[1]).life_cycle_stages)
        /\ cell[4] \in Range(Get(projects, cell[1]).impact_categories)

-----------------------------------------------------------------------------
(* BECD: the identifiers of the records *)

\* C30 (as claimed): any two records process_projects returns have different
\* id fields.
C30_BecdIdsAreUnique ==
    (conv = "becd" /\ pc = "saved") =>
      \A i, j \in DOMAIN lcax_data :
        i # j => lcax_data[i].id # lcax_data[j].id

====
